---- MODULE Spec2Model ----
(***************************************************************************)
(* A model of medicaltorch's dataset layer (medicaltorch/datasets.py) and  *)
(* of the crop transforms with an undo (medicaltorch/transforms.py).       *)
(*                                                                         *)
(* A volume file is a record (id, shape, zooms, perm): what nibabel reads  *)
(* from its header, and the axis permutation as_closest_canonical would    *)
(* apply.  Voxel content is symbolic: the voxel of file f at (x, y, z) is  *)
(* its own value, so a plane is determined by (file, orientation, axis,    *)
(* position) and its in-plane shape.                                       *)
(***************************************************************************)
EXTENDS Integers, Sequences, FiniteSets, TLC

VARIABLES pair,    \* a SegmentationPair2D object (SpecPair)
          heap,    \* the metadata dicts callers hand in, by reference
          res,     \* the outcome of the last call
          ds3,     \* a MRI3DSubVolumeSegmentationDataset (Spec3D)
          ds2,     \* a MRI2DSegmentationDataset (Spec2D)
          cms,     \* the position of a running compute_mean_std (Spec2D)
          crop,    \* a sample passing through a crop and its undo (SpecCrop)
          aug      \* a sample passing through the random transforms (SpecAug)

vars == <<pair, heap, res, ds3, ds2, cms, crop, aug>>

(***************************************************************************)
(* Bounds of the model.                                                    *)
(***************************************************************************)
MaxChannels == 2       \* channels (modalities) of one volume-pair group
MaxSliceIndex == 1     \* slice indexes asked of get_pair_slice: 0..MaxSliceIndex
MaxVolumes == 2        \* volumes of one 3D dataset

(***************************************************************************)
(* Helpers.                                                                *)
(***************************************************************************)
Abs(n) == IF n < 0 THEN -n ELSE n

Range(s) == {s[i] : i \in DOMAIN s}

SeqsUpTo(S, lo, hi) == UNION {[1..n -> S] : n \in lo..hi}

RECURSIVE SumRange(_, _, _)
SumRange(s, lo, hi) ==
    IF lo > hi THEN 0
    ELSE IF lo = hi THEN s[lo]
    ELSE LET mid == (lo + hi) \div 2
         IN  SumRange(s, lo, mid) + SumRange(s, mid + 1, hi)

SumSeq(s) == SumRange(s, 1, Len(s))

RECURSIVE ProdSeq(_)
ProdSeq(s) == IF s = <<>> THEN 1 ELSE Head(s) * ProdSeq(Tail(s))

\* Python's None where a value of another kind may stand.
None == [isNone |-> TRUE]
Some(v) == [isNone |-> FALSE, val |-> v]

\* The outcome of a call that raised, and of one that returned.
NoErr == "none"
Raise(e) == [err |-> e]
Raised(r) == r.err # NoErr

(***************************************************************************)
(* Volume files.                                                           *)
(***************************************************************************)
IdPerm == <<1, 2, 3>>
VolFile(id, shape, zooms, perm) ==
    [id |-> id, shape |-> shape, zooms |-> zooms, perm |-> perm]

\* A None entry of a ground-truth filename list.
NoFile == [id |-> 0, shape |-> <<>>, zooms |-> <<>>, perm |-> <<>>]

\* nib.load(filename): the image handle; nothing is decoded yet.
NibLoad(f) ==
    [file |-> f.id, shape |-> f.shape, zooms |-> f.zooms, perm |-> f.perm,
     canonical |-> FALSE, cached |-> FALSE]

NoHandle == NibLoad(NoFile)

\* nib.as_closest_canonical(handle): a new image with the axes reordered.
Permute(s, perm) ==
    IF Len(s) = Len(perm) THEN [i \in 1..Len(s) |-> s[perm[i]]] ELSE s

AsClosestCanonical(h) ==
    [h EXCEPT !.shape = Permute(h.shape, h.perm),
              !.zooms = Permute(h.zooms, h.perm),
              !.perm = IdPerm,
              !.canonical = (h.perm # IdPerm) \/ h.canonical,
              !.cached = IF h.perm = IdPerm THEN h.cached ELSE FALSE]

\* tuple[:2]
FirstTwo(s) == SubSeq(s, 1, IF Len(s) < 2 THEN Len(s) ELSE 2)

\* A mutant of DropAxis: the last axis goes, whatever the slicing axis.
DropAxis_Last(shape, axis) == SubSeq(shape, 1, Len(shape) - 1)

\* The shape of array[..., i], array[:, i, ...] or array[i, ...]
\* (axis counted from 0; the axis-2 form drops the last axis).
DropAxis(shape, axis) ==
    LET k == IF axis = 2 THEN Len(shape) ELSE axis + 1
    IN  [i \in 1..(Len(shape) - 1) |-> IF i < k THEN shape[i] ELSE shape[i + 1]]

\* Whether the index expression of get_pair_slice raises IndexError.
IndexOutOfBounds(shape, index, axis) ==
    LET k == IF axis = 2 THEN Len(shape) ELSE axis + 1
    IN  \/ k > Len(shape)
        \/ index >= shape[k]
        \/ index < -shape[k]

\* A mutant of PlaneOf: the plane at position 0, whatever the index.
PlaneOf_First(h, index, axis) ==
    [file |-> h.file, canonical |-> h.canonical, axis |-> axis, pos |-> 0,
     shape |-> DropAxis(h.shape, axis)]

\* np.asarray(data_object[...]): the plane of a handle's volume.
PlaneOf(h, index, axis) ==
    [file |-> h.file, canonical |-> h.canonical, axis |-> axis,
     pos |-> IF index < 0 THEN index + h.shape[IF axis = 2 THEN Len(h.shape) ELSE axis + 1]
             ELSE index,
     shape |-> DropAxis(h.shape, axis)]

\* A plane of np.zeros(shape): the same array whatever the position.
ZeroPlane(shape, axis) ==
    [file |-> 0, canonical |-> FALSE, axis |-> 0, pos |-> 0,
     shape |-> DropAxis(shape, axis)]

(***************************************************************************)
(* np.allclose on two shape tuples (rtol 1e-5, atol 1e-8, integers).       *)
(***************************************************************************)
Broadcastable(a, b) == Len(a) = Len(b) \/ Len(a) = 1 \/ Len(b) = 1

AllClose(a, b) ==
    LET n == IF Len(a) > Len(b) THEN Len(a) ELSE Len(b)
        at(s, i) == IF Len(s) = 1 THEN s[1] ELSE s[i]
    IN  \A i \in 1..n : 100000 * Abs(at(a, i) - at(b, i)) <= Abs(at(b, i))

(***************************************************************************)
(* SegmentationPair2D.                                                     *)
(***************************************************************************)
NoPair == [exists |-> FALSE]

\* "if not len(set(shapes))": the test get_pair_shapes makes after each append.
DifferentDimensions(shapes) == Cardinality(Range(shapes)) = 0

\* The first position at which the running list of shapes fails the test
\* (0: none).
RECURSIVE FirstDifferent(_, _)
FirstDifferent(shapes, n) ==
    IF n > Len(shapes) THEN 0
    ELSE IF DifferentDimensions(SubSeq(shapes, 1, n)) THEN n
    ELSE FirstDifferent(shapes, n + 1)

get_pair_shapes(p) ==
    LET input_shape == [i \in 1..Len(p.input_handle) |-> p.input_handle[i].shape]
        present == SelectSeq(p.gt_handle, LAMBDA g : g # NoHandle)
        gt_shape == [i \in 1..Len(present) |-> present[i].shape]
    IN  IF FirstDifferent(input_shape, 1) # 0
        THEN Raise("RuntimeError: Inputs have different dimensions.")
        ELSE IF FirstDifferent(gt_shape, 1) # 0
        THEN Raise("RuntimeError: Labels have different dimensions.")
        ELSE IF Len(input_shape) = 0 THEN Raise("IndexError")
        ELSE [err |-> NoErr,
              input |-> input_shape[1],
              gt |-> IF Len(gt_shape) # 0 THEN Some(gt_shape[1]) ELSE None]

\* zip(metadata, input_filenames), with the two keys written into each dict.
PairMetadataHeap(h, refs, input_filenames, gt_filenames) ==
    LET n == IF Len(refs) < Len(input_filenames) THEN Len(refs)
             ELSE Len(input_filenames)
        pos(r) == CHOOSE i \in 1..n : refs[i] = r /\ \A j \in (i + 1)..n : refs[j] # r
    IN  [r \in DOMAIN h |->
            IF r \in {refs[i] : i \in 1..n}
            THEN ("input_filenames" :> input_filenames[pos(r)].id)
                 @@ ("gt_filenames" :> gt_filenames)
                 @@ h[r]
            ELSE h[r]]

\* A metadata argument is None or a list of references to dicts.
Truthy(metadata) == ~metadata.isNone /\ Len(metadata.val) > 0

SegmentationPair2D(input_filenames, gt_filenames, metadata, cache, canonical, h) ==
    LET input_handle == [i \in 1..Len(input_filenames) |-> NibLoad(input_filenames[i])]
        gt_handle ==
            IF gt_filenames.isNone THEN <<>>
            ELSE [i \in 1..Len(gt_filenames.val) |->
                    IF gt_filenames.val[i] = NoFile THEN NoHandle
                    ELSE NibLoad(gt_filenames.val[i])]
        loaded == [exists |-> TRUE,
                   input_filenames |-> input_filenames,
                   gt_filenames |-> gt_filenames,
                   metadata |-> metadata,
                   cache |-> cache,
                   canonical |-> canonical,
                   input_handle |-> input_handle,
                   gt_handle |-> gt_handle]
        shapes == get_pair_shapes(loaded)
        reordered ==
            IF canonical
            THEN [loaded EXCEPT
                    !.input_handle = [i \in DOMAIN input_handle |->
                                        AsClosestCanonical(input_handle[i])],
                    !.gt_handle = [i \in DOMAIN gt_handle |->
                                        IF gt_handle[i] = NoHandle THEN NoHandle
                                        ELSE AsClosestCanonical(gt_handle[i])]]
            ELSE loaded
        n == IF Truthy(metadata) /\ Len(metadata.val) < Len(input_filenames)
             THEN Len(metadata.val) ELSE Len(input_filenames)
    IN  IF \E i \in DOMAIN input_handle : Len(input_handle[i].shape) > 3
        THEN Raise("RuntimeError: 4-dimensional volumes not supported.")
        ELSE IF Raised(shapes) THEN shapes
        ELSE IF ~gt_filenames.isNone /\ shapes.gt.isNone THEN Raise("TypeError")
        ELSE IF ~gt_filenames.isNone /\ ~Broadcastable(shapes.input, shapes.gt.val)
        THEN Raise("ValueError")
        ELSE IF ~gt_filenames.isNone /\ ~AllClose(shapes.input, shapes.gt.val)
        THEN Raise("RuntimeError: Input and ground truth with different dimensions.")
        ELSE IF Truthy(metadata)
        THEN [err |-> NoErr,
              obj |-> [reordered EXCEPT !.metadata = Some(SubSeq(metadata.val, 1, n))],
              heap |-> PairMetadataHeap(h, metadata.val, input_filenames, gt_filenames)]
        ELSE [err |-> NoErr, obj |-> reordered, heap |-> h]

\* The decoded volume of a handle, and np.zeros(shape).
VolumeOf(h) == [file |-> h.file, canonical |-> h.canonical, shape |-> h.shape]
ZeroVolume(shape) == [file |-> 0, canonical |-> FALSE, shape |-> shape]

\* A mutant of GetFdata: the decoded array is never kept.
GetFdata_NoFill(h, cache_mode) == h

\* handle.get_fdata(cache_mode): the handle afterwards.  'fill' keeps the
\* decoded array in the handle, 'unchanged' leaves the handle as it was.
GetFdata(h, cache_mode) ==
    IF cache_mode = "fill" THEN [h EXCEPT !.cached = TRUE] ELSE h

get_pair_data(p) ==
    LET cache_mode == IF p.cache THEN "fill" ELSE "unchanged"
        input_data == [i \in DOMAIN p.input_handle |-> VolumeOf(p.input_handle[i])]
        gt_data == [i \in DOMAIN p.gt_handle |->
                      IF p.gt_handle[i] # NoHandle THEN VolumeOf(p.gt_handle[i])
                      ELSE ZeroVolume(p.input_handle[1].shape)]
        decoded == SelectSeq(p.input_handle, LAMBDA x : ~x.cached)
                   \o SelectSeq(p.gt_handle, LAMBDA x : x # NoHandle /\ ~x.cached)
    IN  [err |-> NoErr,
         obj |-> [p EXCEPT
                    !.input_handle = [i \in DOMAIN p.input_handle |->
                                        GetFdata(p.input_handle[i], cache_mode)],
                    !.gt_handle = [i \in DOMAIN p.gt_handle |->
                                        IF p.gt_handle[i] # NoHandle
                                        THEN GetFdata(p.gt_handle[i], cache_mode)
                                        ELSE NoHandle]],
         ret |-> [input |-> input_data, gt |-> gt_data,
                  decoded |-> [i \in DOMAIN decoded |-> decoded[i].file]]]

EmptyDict == [k \in {} |-> 0]

\* SampleMetadata({"zooms": ..., "data_shape": ...}) of an input handle.
InputMetaOf(x) ==
    ("zooms" :> FirstTwo(x.zooms)) @@ ("data_shape" :> FirstTwo(x.shape))

\* The metadata entry of one ground-truth handle that is not None.
GtMetaOf(g, gt_filenames) ==
    ("zooms" :> FirstTwo(g.zooms)) @@ ("data_shape" :> FirstTwo(g.shape))
    @@ ("gt_filenames" :> gt_filenames)

\* A mutant of SliceIndexHeap: only the first record is written.
SliceIndexHeap_FirstOnly(h, refs, slice_index) ==
    [r \in DOMAIN h |->
        IF refs # <<>> /\ r = refs[1] THEN ("slice_index" :> slice_index) @@ h[r]
        ELSE h[r]]

\* The stored dicts after "metadata['slice_index'] = slice_index" on each.
SliceIndexHeap(h, refs, slice_index) ==
    [r \in DOMAIN h |->
        IF r \in Range(refs) THEN ("slice_index" :> slice_index) @@ h[r] ELSE h[r]]

\* One plane of a decoded array or of a dataobj.
SlicePlane(v, slice_index, slice_axis) ==
    IF v.file = 0 THEN ZeroPlane(v.shape, slice_axis)
    ELSE PlaneOf(v, slice_index, slice_axis)

get_pair_slice(p, h, slice_index, slice_axis) ==
    LET data == get_pair_data(p)
        p1 == IF p.cache THEN data.obj ELSE p
        input_dataobj == IF p.cache THEN data.ret.input
                         ELSE [i \in DOMAIN p.input_handle |-> VolumeOf(p.input_handle[i])]
        gt_dataobj == IF p.cache THEN data.ret.gt
                      ELSE [i \in DOMAIN p.gt_handle |-> VolumeOf(p.gt_handle[i])]
        input_slices == [i \in DOMAIN input_dataobj |->
                            SlicePlane(input_dataobj[i], slice_index, slice_axis)]
        gt_slices == [i \in DOMAIN gt_dataobj |->
                            SlicePlane(gt_dataobj[i], slice_index, slice_axis)]
        labelled == \E i \in DOMAIN p.gt_handle : p.gt_handle[i] # NoHandle
        refs == IF Truthy(p.metadata) THEN p.metadata.val ELSE <<>>
        gt_meta_dict == [i \in DOMAIN p.gt_handle |->
                            IF p.gt_handle[i] # NoHandle
                            THEN GtMetaOf(p.gt_handle[i], h[refs[1]]["gt_filenames"])
                            ELSE EmptyDict]
        h1 == SliceIndexHeap(h, refs, slice_index)
        input_meta_dict == [i \in DOMAIN p.input_handle |->
                              IF i <= Len(refs)
                              THEN h1[refs[i]] @@ InputMetaOf(p.input_handle[i])
                              ELSE InputMetaOf(p.input_handle[i])]
    IN  IF ~p.cache /\ \E i \in DOMAIN p.gt_handle : p.gt_handle[i] = NoHandle
        THEN [err |-> "AttributeError", obj |-> p, heap |-> h]
        ELSE IF slice_axis \notin {0, 1, 2}
        THEN [err |-> "RuntimeError: Invalid axis, must be between 0 and 2.",
              obj |-> p1, heap |-> h]
        ELSE IF \/ \E i \in DOMAIN input_dataobj :
                      IndexOutOfBounds(input_dataobj[i].shape, slice_index, slice_axis)
                \/ \E i \in DOMAIN gt_dataobj :
                      IndexOutOfBounds(gt_dataobj[i].shape, slice_index, slice_axis)
        THEN [err |-> "IndexError", obj |-> p1, heap |-> h]
        ELSE IF labelled /\ p.metadata.isNone
        THEN [err |-> "TypeError", obj |-> p1, heap |-> h]
        ELSE IF labelled /\ ~Truthy(p.metadata)
        THEN [err |-> "IndexError", obj |-> p1, heap |-> h]
        ELSE [err |-> NoErr, obj |-> p1, heap |-> h1,
              ret |-> [input |-> input_slices,
                       gt |-> gt_slices,
                       input_metadata |-> input_meta_dict,
                       gt_metadata |-> gt_meta_dict]]

(***************************************************************************)
(* MRI3DSegmentationDataset and MRI3DSubVolumeSegmentationDataset.         *)
(***************************************************************************)

\* A filename_pairs entry: (input filenames, ground-truth filenames,
\* region-of-interest filenames, metadata).
Group(input_filenames, gt_filenames, roi_filename, metadata) ==
    [input_filenames |-> input_filenames, gt_filenames |-> gt_filenames,
     roi_filename |-> roi_filename, metadata |-> metadata]

\* MRI3DSegmentationDataset._load_filenames: one SegmentationPair2D per
\* entry, in order; the first constructor that raises ends the loop.
RECURSIVE LoadHandlers3D(_, _, _, _, _, _)
LoadHandlers3D(filename_pairs, cache, canonical, h, k, handlers) ==
    IF k > Len(filename_pairs) THEN [err |-> NoErr, handlers |-> handlers, heap |-> h]
    ELSE LET g == filename_pairs[k]
             segpair == SegmentationPair2D(g.input_filenames, g.gt_filenames,
                                           g.metadata, cache, canonical, h)
         IN  IF Raised(segpair) THEN Raise(segpair.err)
             ELSE LoadHandlers3D(filename_pairs, cache, canonical, segpair.heap,
                                 k + 1, Append(handlers, segpair.obj))

\* list(range(start, stop, step)) for a step > 0.
PyRange(start, stop, step) ==
    LET n == IF stop > start THEN (stop - start + step - 1) \div step ELSE 0
    IN  [i \in 1..n |-> start + (i - 1) * step]

\* The transform pipeline: None, or a Compose of stages.
IsCenterCrop3D(transfo) == transfo.type = "CenterCrop3D"

\* The first CenterCrop3D stage of the pipeline (0: none).
FirstCrop3D(transforms) ==
    IF \E i \in DOMAIN transforms : IsCenterCrop3D(transforms[i])
    THEN CHOOSE i \in DOMAIN transforms :
            /\ IsCenterCrop3D(transforms[i])
            /\ \A j \in 1..(i - 1) : ~IsCenterCrop3D(transforms[j])
    ELSE 0

\* The multiple every extent must be.
ShapeMultiple == 16

\* A mutant of BadShape3D: the last axis is left unchecked.
BadShape3D_TwoAxes(shape, length, padding) ==
    \/ (shape[1] - 2 * padding) % length[1] # 0 \/ shape[1] % ShapeMultiple # 0
    \/ (shape[2] - 2 * padding) % length[2] # 0 \/ shape[2] % ShapeMultiple # 0

\* The test that raises 'Input shape of each dimension should be a multiple
\* of length plus 2 * padding and a multiple of 16.'
BadShape3D(shape, length, padding) ==
    \/ (shape[1] - 2 * padding) % length[1] # 0 \/ shape[1] % ShapeMultiple # 0
    \/ (shape[2] - 2 * padding) % length[2] # 0 \/ shape[2] % ShapeMultiple # 0
    \/ (shape[3] - 2 * padding) % length[3] # 0 \/ shape[3] % ShapeMultiple # 0

\* A mutant of AxisStops: the windows advance by the padded length.
AxisStops_PaddedStep(shape, length, padding, a) ==
    PyRange(length[a] + padding, shape[a] - padding + 1, length[a] + padding)

\* The values of x (a = 1), y (a = 2) and z (a = 3) in the three loops.
AxisStops(shape, length, padding, a) ==
    PyRange(length[a] + padding, shape[a] - padding + 1, length[a])

\* A mutant of Window3D: the upper bounds carry no padding.
Window3D_NoUpperHalo(x, y, z, length, padding, i) ==
    [x_min |-> x - length[1] - padding,
     x_max |-> x,
     y_min |-> y - length[2] - padding,
     y_max |-> y,
     z_min |-> z - length[3] - padding,
     z_max |-> z,
     handler_index |-> i]

\* The entry appended for (x, y, z).
Window3D(x, y, z, length, padding, i) ==
    [x_min |-> x - length[1] - padding,
     x_max |-> x + padding,
     y_min |-> y - length[2] - padding,
     y_max |-> y + padding,
     z_min |-> z - length[3] - padding,
     z_max |-> z + padding,
     handler_index |-> i]

\* The windows of handler i (counted from 0), in the order of the three loops.
Windows3D(shape, length, padding, i) ==
    LET xs == AxisStops(shape, length, padding, 1)
        ys == AxisStops(shape, length, padding, 2)
        zs == AxisStops(shape, length, padding, 3)
        ny == Len(ys)
        nz == Len(zs)
    IN  [k \in 1..(Len(xs) * ny * nz) |->
            Window3D(xs[((k - 1) \div (ny * nz)) + 1],
                     ys[(((k - 1) \div nz) % ny) + 1],
                     zs[((k - 1) % nz) + 1],
                     length, padding, i)]

\* The shape _prepare_indexes checks and tiles for handler p.
IndexedShape(p, transforms) ==
    IF FirstCrop3D(transforms) = 0 THEN p.input_handle[1].shape
    ELSE transforms[FirstCrop3D(transforms)].size

\* The loop of _prepare_indexes over the handlers, from handler k on.
RECURSIVE PrepareLoop(_, _, _, _, _, _)
PrepareLoop(handlers, transforms, length, padding, k, indexes) ==
    IF k > Len(handlers) THEN [err |-> NoErr, handlers |-> handlers, indexes |-> indexes]
    ELSE LET crop3 == FirstCrop3D(transforms) # 0
             p == IF crop3 THEN handlers[k] ELSE get_pair_data(handlers[k]).obj
             shape == IndexedShape(handlers[k], transforms)
         IN  IF BadShape3D(shape, length, padding)
             THEN Raise("RuntimeError: Input shape of each dimension should be a multiple of length plus 2 * padding and a multiple of 16.")
             ELSE PrepareLoop([handlers EXCEPT ![k] = p], transforms, length, padding,
                              k + 1,
                              indexes \o Windows3D(shape, length, padding, k - 1))

prepare_indexes(handlers, transform, length, padding) ==
    IF transform.isNone THEN Raise("AttributeError")
    ELSE PrepareLoop(handlers, transform.val, length, padding, 1, <<>>)

MRI3DSubVolumeSegmentationDataset(filename_pairs, cache, transform, canonical, length, padding, h) ==
    LET loaded == LoadHandlers3D(filename_pairs, cache, canonical, h, 1, <<>>)
        prepared == prepare_indexes(loaded.handlers, transform, length, padding)
    IN  IF Raised(loaded) THEN Raise(loaded.err)
        ELSE IF Raised(prepared) THEN Raise(prepared.err)
        ELSE [err |-> NoErr,
              heap |-> loaded.heap,
              obj |-> [exists |-> TRUE,
                       filename_pairs |-> filename_pairs,
                       handlers |-> prepared.handlers,
                       indexes |-> prepared.indexes,
                       transform |-> transform,
                       cache |-> cache,
                       canonical |-> canonical,
                       length |-> length,
                       padding |-> padding]]

\* array[x_min:x_max, y_min:y_max, z_min:z_max] of a decoded volume: per
\* axis the half-open range kept, a bound past the extent being clipped
\* to it.
ClipTo(bound, extent) == IF bound > extent THEN extent ELSE bound

SubVolume(v, coord) ==
    LET mins == <<coord.x_min, coord.y_min, coord.z_min>>
        maxs == <<coord.x_max, coord.y_max, coord.z_max>>
    IN  [file |-> v.file, canonical |-> v.canonical,
         lo |-> [a \in DOMAIN v.shape |-> ClipTo(mins[a], v.shape[a])],
         hi |-> [a \in DOMAIN v.shape |-> ClipTo(maxs[a], v.shape[a])]]

\* self.transform(data_dict): the pipeline's stages applied to the sample.
Transformed3D(transform, data_dict) ==
    [stages |-> transform.val, sample |-> data_dict]

\* MRI3DSubVolumeSegmentationDataset.__getitem__: the sample, the dataset
\* and the metadata dicts afterwards.
SubVolumeGetitem(ds, h, index) ==
    LET n == Len(ds.indexes)
        at == IF index < 0 THEN index + n + 1 ELSE index + 1
        coord == ds.indexes[at]
        k == coord.handler_index + 1
        data == get_pair_data(ds.handlers[k])
        data_shape == data.ret.gt[1].shape
        sliced == get_pair_slice(data.obj, h, coord.handler_index, 2)
        ds1 == [ds EXCEPT !.handlers[k] = sliced.obj]
        data_dict ==
            [input |-> [i \in DOMAIN data.ret.input |->
                           SubVolume(data.ret.input[i], coord)],
             gt |-> [i \in DOMAIN data.ret.gt |-> SubVolume(data.ret.gt[i], coord)],
             input_metadata |-> [i \in DOMAIN sliced.ret.input_metadata |->
                                    IF i <= Len(data.ret.input)
                                    THEN ("data_shape" :> data_shape)
                                         @@ sliced.ret.input_metadata[i]
                                    ELSE sliced.ret.input_metadata[i]],
             gt_metadata |-> sliced.ret.gt_metadata]
    IN  IF index >= n \/ index < -n
        THEN [err |-> "IndexError", obj |-> ds, heap |-> h]
        ELSE IF Len(data.ret.gt) = 0
        THEN [err |-> "IndexError", obj |-> [ds EXCEPT !.handlers[k] = data.obj],
              heap |-> h]
        ELSE IF Raised(sliced)
        THEN [err |-> sliced.err, obj |-> ds1, heap |-> sliced.heap]
        ELSE [err |-> NoErr, obj |-> ds1, heap |-> sliced.heap,
              ret |-> IF ds.transform.isNone THEN data_dict
                      ELSE Transformed3D(ds.transform, data_dict)]

(***************************************************************************)
(* SpecPair: one SegmentationPair2D, constructed from files of small       *)
(* shapes and then asked for its shapes, its data and its slices.          *)
(***************************************************************************)
Zooms == <<1, 1, 2>>
SwapXY == <<2, 1, 3>>

PairFiles ==
    { VolFile(1, <<1, 2, 3>>, Zooms, IdPerm),
      VolFile(2, <<1, 2, 2>>, Zooms, IdPerm),
      VolFile(3, <<1, 2, 3, 2>>, <<1, 1, 2, 1>>, IdPerm) }

AxisVals == {0, 1, 2, 3}

Unused == [exists |-> FALSE]
NoCall == [op |-> "none", err |-> NoErr]

PairHeap == [r \in 1..MaxChannels |-> ("subject" :> r)]

\* The metadata arguments tried with n input channels: None, an empty list,
\* one dict per channel, one dict shared by all channels.
MetadataArgs(n) ==
    {None, Some(<<>>), Some([i \in 1..n |-> i]), Some([i \in 1..n |-> 1])}

InitPair ==
    /\ pair = NoPair
    /\ heap = PairHeap
    /\ res = NoCall
    /\ ds3 = Unused
    /\ ds2 = Unused
    /\ cms = Unused
    /\ crop = Unused
    /\ aug = Unused

PairInit ==
    /\ ~pair.exists
    /\ res.op = "none"
    /\ \E n \in 1..MaxChannels :
       \E input_filenames \in [1..n -> PairFiles] :
       \E gt_filenames \in {None} \cup {Some(g) : g \in [1..n -> PairFiles \cup {NoFile}]} :
       \E metadata \in MetadataArgs(n) :
       \E cache \in BOOLEAN :
          LET r == SegmentationPair2D(input_filenames, gt_filenames, metadata,
                                      cache, FALSE, heap)
              call == [op |-> "init", err |-> r.err,
                       input_filenames |-> input_filenames,
                       gt_filenames |-> gt_filenames,
                       metadata |-> metadata,
                       cache |-> cache]
          IN  /\ res' = call
              /\ pair' = IF Raised(r) THEN pair ELSE r.obj
              /\ heap' = IF Raised(r) THEN heap ELSE r.heap
    /\ UNCHANGED <<ds3, ds2, cms, crop, aug>>

PairGetPairShapes ==
    /\ pair.exists
    /\ LET r == get_pair_shapes(pair)
       IN  res' = IF Raised(r) THEN [op |-> "get_pair_shapes", err |-> r.err]
                  ELSE [op |-> "get_pair_shapes", err |-> NoErr,
                        ret |-> [input |-> r.input, gt |-> r.gt]]
    /\ UNCHANGED <<pair, heap, ds3, ds2, cms, crop, aug>>

PairGetPairData ==
    /\ pair.exists
    /\ LET r == get_pair_data(pair)
       IN  /\ res' = [op |-> "get_pair_data", err |-> NoErr, ret |-> r.ret]
           /\ pair' = r.obj
    /\ UNCHANGED <<heap, ds3, ds2, cms, crop, aug>>

\* get_pair_slice(slice_index, slice_axis); held is what the call before
\* returned, kept by its caller, when that was a get_pair_slice too.
PairGetPairSlice ==
    /\ pair.exists
    /\ \E slice_index \in 0..MaxSliceIndex, slice_axis \in AxisVals :
          LET r == get_pair_slice(pair, heap, slice_index, slice_axis)
              held == IF res.op = "get_pair_slice" /\ res.err = NoErr
                      THEN Some([slice_index |-> res.slice_index, ret |-> res.ret])
                      ELSE None
          IN  /\ res' = IF Raised(r)
                        THEN [op |-> "get_pair_slice", err |-> r.err,
                              slice_index |-> slice_index, slice_axis |-> slice_axis]
                        ELSE [op |-> "get_pair_slice", err |-> NoErr,
                              slice_index |-> slice_index, slice_axis |-> slice_axis,
                              ret |-> r.ret, held |-> held]
              /\ pair' = r.obj
              /\ heap' = r.heap
    /\ UNCHANGED <<ds3, ds2, cms, crop, aug>>

NextPair ==
    \/ PairInit
    \/ PairGetPairShapes
    \/ PairGetPairData
    \/ PairGetPairSlice

SpecPair == InitPair /\ [][NextPair]_vars

(***************************************************************************)
(* Claims about SegmentationPair2D (SpecPair).                             *)
(***************************************************************************)

\* The channels of a constructor call whose ground truth is present and
\* whose input and ground-truth shapes differ.
MismatchedChannels(call) ==
    IF call.gt_filenames.isNone THEN {}
    ELSE {i \in DOMAIN call.gt_filenames.val \cap DOMAIN call.input_filenames :
            /\ call.gt_filenames.val[i] # NoFile
            /\ call.gt_filenames.val[i].shape # call.input_filenames[i].shape}

\* C8: constructing a SegmentationPair2D raises if an input volume has more
\* than 3 dimensions, or if at some channel position (the first or a later
\* one) a ground truth is present whose shape differs from the input's.
C8_ConstructorRejectsMismatch ==
    res.op = "init" =>
        ((\/ \E i \in DOMAIN res.input_filenames :
                Len(res.input_filenames[i].shape) > 3
          \/ MismatchedChannels(res) # {})
         => res.err # NoErr)

\* C9: get_pair_shapes returns (the shape of the input channels, the shape of
\* the present ground-truth channels or None), and raises whenever two input
\* channels, or two present ground-truth channels, differ in shape.
C9_ShapesValidated ==
    res.op = "get_pair_shapes" =>
        LET input_shapes == {pair.input_handle[i].shape : i \in DOMAIN pair.input_handle}
            gt_shapes == {pair.gt_handle[i].shape :
                            i \in {j \in DOMAIN pair.gt_handle : pair.gt_handle[j] # NoHandle}}
        IN  /\ (Cardinality(input_shapes) > 1 \/ Cardinality(gt_shapes) > 1)
                  => res.err # NoErr
            /\ res.err = NoErr =>
                  /\ input_shapes = {res.ret.input}
                  /\ IF gt_shapes = {} THEN res.ret.gt.isNone
                     ELSE ~res.ret.gt.isNone /\ gt_shapes = {res.ret.gt.val}

\* Whether slice_index lies inside the extent, along slice_axis, of every
\* volume of the pair.
InsideEveryVolume(p, slice_index, slice_axis) ==
    /\ \A i \in DOMAIN p.input_handle :
          ~IndexOutOfBounds(p.input_handle[i].shape, slice_index, slice_axis)
    /\ \A i \in DOMAIN p.gt_handle :
          p.gt_handle[i] # NoHandle =>
             ~IndexOutOfBounds(p.gt_handle[i].shape, slice_index, slice_axis)

\* C10: get_pair_slice raises the axis-range error for every axis outside
\* {0, 1, 2}, and returns a slice for every axis in {0, 1, 2} when the index
\* lies inside the extent of the pair's volumes on that axis.
C10_SliceAxisContract ==
    res.op = "get_pair_slice" =>
        /\ res.slice_axis \notin {0, 1, 2} =>
              res.err = "RuntimeError: Invalid axis, must be between 0 and 2."
        /\ (res.slice_axis \in {0, 1, 2}
            /\ InsideEveryVolume(pair, res.slice_index, res.slice_axis))
              => res.err = NoErr

\* The channels of pair p, input and ground truth, that have a volume and
\* whose handle holds decoded data (want "cached"), holds none ("fresh"),
\* or either ("present").
Wanted(x, want) ==
    \/ want = "present"
    \/ want = "cached" /\ x.cached
    \/ want = "fresh" /\ ~x.cached

Channels(p, want) ==
    {<<"input", i>> : i \in {i \in DOMAIN p.input_handle :
                               Wanted(p.input_handle[i], want)}}
    \cup {<<"gt", i>> : i \in {i \in DOMAIN p.gt_handle :
                                 /\ p.gt_handle[i] # NoHandle
                                 /\ Wanted(p.gt_handle[i], want)}}

\* C24: with caching enabled a get_pair_data call decodes exactly the
\* channels that hold no decoded data yet and leaves every channel holding
\* it, and no step makes a channel lose it, so over any sequence of calls a
\* channel is decoded at most once; with caching disabled every
\* get_pair_data call decodes every present channel and leaves none holding
\* decoded data.
C24_DecodeOncePerChannel ==
    [][pair.exists =>
          /\ Channels(pair, "cached") \subseteq Channels(pair', "cached")
          /\ res'.op = "get_pair_data" =>
                IF pair.cache
                THEN /\ Len(res'.ret.decoded) = Cardinality(Channels(pair, "fresh"))
                     /\ Channels(pair', "cached") = Channels(pair', "present")
                ELSE /\ Len(res'.ret.decoded) = Cardinality(Channels(pair, "present"))
                     /\ Channels(pair', "cached") = {}]_vars

\* A get_pair_data call on a caching pair of two channels with ground truth
\* decoded nothing: an earlier call had filled the cache.
C24_Witness ==
    /\ pair.exists
    /\ pair.cache
    /\ res.op = "get_pair_data"
    /\ Len(pair.input_handle) = 2
    /\ \E i \in DOMAIN pair.gt_handle : pair.gt_handle[i] # NoHandle
    /\ res.ret.decoded = <<>>

\* The outcome of get_pair_slice on pair p: the error, and the planes and
\* metadata returned when there is none.
SliceOutcome(p, h, slice_index, slice_axis) ==
    LET r == get_pair_slice(p, h, slice_index, slice_axis)
    IN  IF Raised(r) THEN [err |-> r.err] ELSE [err |-> NoErr, ret |-> r.ret]

\* The outcome of a get_pair_slice step equals that of the same call on
\* the same pair with the other caching mode.
SameInOtherMode ==
    SliceOutcome(pair, heap, res'.slice_index, res'.slice_axis)
       = SliceOutcome([pair EXCEPT !.cache = ~pair.cache], heap,
                      res'.slice_index, res'.slice_axis)

\* C28: get_pair_slice returns the same input planes, ground-truth planes
\* and metadata with caching enabled and with caching disabled, also for a
\* pair with an absent (None) ground-truth channel, whose plane is
\* zero-filled in both modes.
C28_SameSliceInBothModes ==
    [][(pair.exists /\ res'.op = "get_pair_slice") =>
          /\ SameInOtherMode
          /\ res'.err = NoErr =>
                \A i \in DOMAIN pair.gt_handle :
                   pair.gt_handle[i] = NoHandle => res'.ret.gt[i].file = 0]_vars

\* C28 for the pairs whose ground-truth channels are all present.
C28_SameSliceWhenAllGtPresent ==
    [][(/\ pair.exists
        /\ res'.op = "get_pair_slice"
        /\ \A i \in DOMAIN pair.gt_handle : pair.gt_handle[i] # NoHandle)
       => SameInOtherMode]_vars


\* C14: whenever get_pair_slice returns a slice of a pair with ground truth,
\* for every slicing axis and volume shape, 'data_shape' of each channel's
\* input metadata is the shape of the volume with the slicing axis removed,
\* the shape of the plane returned for that channel.
C14_DataShapeIsPlaneShape ==
    (/\ res.op = "get_pair_slice"
     /\ res.err = NoErr
     /\ \E i \in DOMAIN pair.gt_handle : pair.gt_handle[i] # NoHandle)
    => \A i \in DOMAIN res.ret.input :
          res.ret.input_metadata[i]["data_shape"] = res.ret.input[i].shape

\* The input metadata in ret carries slice_index for each channel that has
\* a stored record.
CarriesIndex(ret, slice_index) ==
    \A i \in 1..Len(pair.metadata.val) :
        /\ "slice_index" \in DOMAIN ret.input_metadata[i]
        /\ ret.input_metadata[i]["slice_index"] = slice_index

Zooms3 == <<1, 1, 1>>

\* Volume shapes: multiples of 16 and not, cubic and not, the docstring's 96.
Shapes3D ==
    { <<16, 16, 16>>, <<32, 32, 32>>, <<32, 16, 48>>, <<64, 48, 32>>,
      <<24, 32, 32>>, <<32, 32, 40>>, <<96, 96, 96>> }

\* Core lengths per axis (positive: a zero length divides by zero).
Lengths3D == [1..3 -> {16, 32}]

Paddings3D == {0, 8, 16}

ToTensorStage == [type |-> "ToTensor", size |-> <<>>]
CenterCrop3DStage(size) == [type |-> "CenterCrop3D", size |-> size]

\* The transform argument: None (the constructor's default), a pipeline
\* without a center crop, pipelines with one.
Transforms3D ==
    { None,
      Some(<<ToTensorStage>>),
      Some(<<CenterCrop3DStage(<<32, 32, 32>>), ToTensorStage>>),
      Some(<<ToTensorStage, CenterCrop3DStage(<<32, 24, 64>>)>>) }

\* The k-th entry of filename_pairs for a volume of the given shape.
Volume3D(k, shape) ==
    Group(<<VolFile(2 * k - 1, shape, Zooms3, IdPerm)>>,
          Some(<<VolFile(2 * k, shape, Zooms3, IdPerm)>>),
          None,
          Some(<<k>>))

Heap3D == [r \in 1..MaxVolumes |-> ("subject" :> r)]

\* Before construction ds3 holds the configuration the dataset is then built
\* with; SubVolumeInit draws the volumes.
Init3D ==
    /\ \E length \in Lengths3D, padding \in Paddings3D, transform \in Transforms3D :
          ds3 = [exists |-> FALSE, length |-> length, padding |-> padding,
                 transform |-> transform]
    /\ heap = Heap3D
    /\ res = NoCall
    /\ pair = Unused
    /\ ds2 = Unused
    /\ cms = Unused
    /\ crop = Unused
    /\ aug = Unused

SubVolumeInit ==
    /\ ~ds3.exists
    /\ res.op = "none"
    /\ \E n \in 0..MaxVolumes :
       \E shapes \in [1..n -> Shapes3D] :
          LET filename_pairs == [k \in 1..n |-> Volume3D(k, shapes[k])]
              r == MRI3DSubVolumeSegmentationDataset(filename_pairs, TRUE, ds3.transform,
                                                     FALSE, ds3.length, ds3.padding, heap)
          IN  /\ res' = [op |-> "init", err |-> r.err, shapes |-> shapes]
              /\ ds3' = IF Raised(r) THEN ds3 ELSE r.obj
              /\ heap' = IF Raised(r) THEN heap ELSE r.heap
    /\ UNCHANGED <<pair, ds2, cms, crop, aug>>

\* MRI3DSubVolumeSegmentationDataset.__len__
SubVolumeLen ==
    /\ ds3.exists
    /\ res' = [op |-> "len", err |-> NoErr, ret |-> Len(ds3.indexes)]
    /\ UNCHANGED <<ds3, heap, pair, ds2, cms, crop, aug>>

\* The positions asked of a dataset of n windows over the given handlers:
\* the first and the last window of every volume.
Asked3D(indexes) ==
    {i \in 0..(Len(indexes) - 1) :
        \/ i = 0
        \/ i = Len(indexes) - 1
        \/ indexes[i + 1].handler_index # indexes[i].handler_index
        \/ indexes[i + 1].handler_index # indexes[i + 2].handler_index}

\* MRI3DSubVolumeSegmentationDataset.__getitem__
SubVolumeGetItem ==
    /\ ds3.exists
    /\ \E index \in Asked3D(ds3.indexes) :
       \E r \in {SubVolumeGetitem(ds3, heap, index)} :
          /\ res' = IF Raised(r)
                    THEN [op |-> "getitem", err |-> r.err, index |-> index]
                    ELSE [op |-> "getitem", err |-> NoErr, index |-> index,
                          ret |-> r.ret]
          /\ ds3' = r.obj
          /\ heap' = r.heap
    /\ UNCHANGED <<pair, ds2, cms, crop, aug>>

Next3D ==
    \/ SubVolumeInit
    \/ SubVolumeLen
    \/ SubVolumeGetItem

Spec3D == Init3D /\ [][Next3D]_vars

\* Spec3DMany: a dataset of up to ManyVolumes volumes of the smallest shape
\* that passes the constructor's test, one window each, without a center
\* crop; its first and its last window are asked.
ManyVolumes == ShapeMultiple + 1
SmallestShape == <<ShapeMultiple, ShapeMultiple, ShapeMultiple>>

Init3DMany ==
    /\ ds3 = [exists |-> FALSE, length |-> SmallestShape, padding |-> 0,
              transform |-> Some(<<ToTensorStage>>)]
    /\ heap = [r \in 1..ManyVolumes |-> ("subject" :> r)]
    /\ res = NoCall
    /\ pair = Unused
    /\ ds2 = Unused
    /\ cms = Unused
    /\ crop = Unused
    /\ aug = Unused

SubVolumeInitMany ==
    /\ ~ds3.exists
    /\ res.op = "none"
    /\ \E n \in 0..ManyVolumes :
          LET filename_pairs == [k \in 1..n |-> Volume3D(k, SmallestShape)]
              r == MRI3DSubVolumeSegmentationDataset(filename_pairs, TRUE, ds3.transform,
                                                     FALSE, ds3.length, ds3.padding, heap)
          IN  /\ res' = [op |-> "init", err |-> r.err,
                         shapes |-> [k \in 1..n |-> SmallestShape]]
              /\ ds3' = IF Raised(r) THEN ds3 ELSE r.obj
              /\ heap' = IF Raised(r) THEN heap ELSE r.heap
    /\ UNCHANGED <<pair, ds2, cms, crop, aug>>

\* MRI3DSubVolumeSegmentationDataset.__getitem__ at the first and at the
\* last position.
SubVolumeGetItemEnds ==
    /\ ds3.exists
    /\ \E index \in {0, Len(ds3.indexes) - 1} \cap (0..(Len(ds3.indexes) - 1)) :
       \E r \in {SubVolumeGetitem(ds3, heap, index)} :
          /\ res' = IF Raised(r)
                    THEN [op |-> "getitem", err |-> r.err, index |-> index]
                    ELSE [op |-> "getitem", err |-> NoErr, index |-> index,
                          ret |-> r.ret]
          /\ ds3' = r.obj
          /\ heap' = r.heap
    /\ UNCHANGED <<pair, ds2, cms, crop, aug>>

Next3DMany ==
    \/ SubVolumeInitMany
    \/ SubVolumeLen
    \/ SubVolumeGetItemEnds

Spec3DMany == Init3DMany /\ [][Next3DMany]_vars

(***************************************************************************)
(* Claims about MRI3DSubVolumeSegmentationDataset (Spec3D).                *)
(***************************************************************************)

\* The shape volume k of the built dataset was checked and tiled against.
Shape3(k) == IndexedShape(ds3.handlers[k], ds3.transform.val)

\* The windows stored for volume k, in index order.
WindowsOfVolume(k) == SelectSeq(ds3.indexes, LAMBDA w : w.handler_index = k - 1)

\* prod over the axes of (S[axis] - 2P) / L[axis]
QuotientProduct(S, L, P) == ProdSeq([a \in 1..3 |-> (S[a] - 2 * P) \div L[a]])

\* C2: every volume of a built dataset (its shape S, the length L and the
\* padding P passed the divisibility test) has exactly
\* prod (S[axis] - 2P) / L[axis] windows, and the dataset length is the sum
\* of these counts over the volumes.
C2_WindowCountIsQuotientProduct ==
    ds3.exists =>
        LET counts == [k \in DOMAIN ds3.handlers |->
                          QuotientProduct(Shape3(k), ds3.length, ds3.padding)]
        IN  /\ \A k \in DOMAIN ds3.handlers : Len(WindowsOfVolume(k)) = counts[k]
            /\ Len(ds3.indexes) = SumSeq(counts)
            /\ res.op = "len" => res.ret = SumSeq(counts)

\* A box: per axis a half-open interval [lo[a], hi[a]).
Core(w, P) ==
    [lo |-> <<w.x_min + P, w.y_min + P, w.z_min + P>>,
     hi |-> <<w.x_max - P, w.y_max - P, w.z_max - P>>]

BoxVolume(b) ==
    ProdSeq([a \in 1..3 |-> IF b.hi[a] > b.lo[a] THEN b.hi[a] - b.lo[a] ELSE 0])

BoxInside(b, c) == \A a \in 1..3 : c.lo[a] <= b.lo[a] /\ b.hi[a] <= c.hi[a]

BoxesDisjoint(b, c) == \E a \in 1..3 : b.hi[a] <= c.lo[a] \/ c.hi[a] <= b.lo[a]

\* The cores of volume k's windows tile the box exactly: each lies inside
\* it, no two overlap, and together they have the box's volume.
CoresTile(k, box) ==
    LET ws == WindowsOfVolume(k)
        cores == [i \in DOMAIN ws |-> Core(ws[i], ds3.padding)]
    IN  /\ \A i \in DOMAIN cores : BoxVolume(cores[i]) > 0 /\ BoxInside(cores[i], box)
        /\ \A i \in DOMAIN cores : \A j \in (i + 1)..Len(cores) :
              BoxesDisjoint(cores[i], cores[j])
        /\ SumSeq([i \in DOMAIN cores |-> BoxVolume(cores[i])]) = BoxVolume(box)

\* C3, as stated: the cores of a volume's windows are pairwise disjoint and
\* their union is the whole volume [0, S[axis]) on every axis.
C3_CoresTileWholeVolume ==
    ds3.exists =>
        \A k \in DOMAIN ds3.handlers :
            CoresTile(k, [lo |-> <<0, 0, 0>>, hi |-> Shape3(k)])

\* C3, amended: the cores of a volume's windows are pairwise disjoint and
\* their union is [P, S[axis] - P) on every axis: the volume without a
\* border of width P (the whole volume when P = 0).
C3_CoresTileInterior ==
    ds3.exists =>
        \A k \in DOMAIN ds3.handlers :
            CoresTile(k, [lo |-> <<ds3.padding, ds3.padding, ds3.padding>>,
                          hi |-> [a \in 1..3 |-> Shape3(k)[a] - ds3.padding]])

\* A padded volume with at least two windows along every axis.
C3_Witness ==
    /\ ds3.exists
    /\ ds3.padding > 0
    /\ \E k \in DOMAIN ds3.handlers :
          \A a \in 1..3 : Shape3(k)[a] - 2 * ds3.padding >= 2 * ds3.length[a]

ExampleShape == <<96, 96, 96>>
ExampleLength == <<32, 32, 32>>
ExamplePadding == 16

WindowSpans(w) == <<w.x_max - w.x_min, w.y_max - w.y_min, w.z_max - w.z_min>>

\* C4: every stored window spans L[axis] + 2P on each axis and lies in the
\* volume, 0 <= min < max <= S[axis]; a volume of shape (96, 96, 96) with
\* length (32, 32, 32) and padding 16 passes validation and yields exactly 8
\* windows of span 64.
C4_WindowBounds ==
    /\ ds3.exists =>
          \A i \in DOMAIN ds3.indexes :
             LET w == ds3.indexes[i]
                 S == Shape3(w.handler_index + 1)
                 lo == <<w.x_min, w.y_min, w.z_min>>
                 hi == <<w.x_max, w.y_max, w.z_max>>
             IN  \A a \in 1..3 :
                    /\ hi[a] - lo[a] = ds3.length[a] + 2 * ds3.padding
                    /\ 0 <= lo[a] /\ lo[a] < hi[a] /\ hi[a] <= S[a]
    /\ (/\ res.op = "init"
        /\ res.shapes = <<ExampleShape>>
        /\ ds3.length = ExampleLength
        /\ ds3.padding = ExamplePadding
        /\ ds3.transform = Some(<<ToTensorStage>>))
          => /\ res.err = NoErr
             /\ ds3.exists
             /\ Len(ds3.indexes) = 8
             /\ \A i \in DOMAIN ds3.indexes : WindowSpans(ds3.indexes[i]) = <<64, 64, 64>>

\* The docstring's example, built.
C4_Witness ==
    /\ ds3.exists
    /\ res.op = "init"
    /\ res.shapes = <<ExampleShape>>
    /\ ds3.length = ExampleLength
    /\ ds3.padding = ExamplePadding
    /\ Len(ds3.indexes) = 8

\* The shape the constructor checks for the k-th volume of its argument.
CheckedShape(k) ==
    IF ~ds3.transform.isNone /\ FirstCrop3D(ds3.transform.val) # 0
    THEN ds3.transform.val[FirstCrop3D(ds3.transform.val)].size
    ELSE res.shapes[k]

InvariantViolated(S, L, P) ==
    \E a \in 1..3 : (S[a] - 2 * P) % L[a] # 0 \/ S[a] % ShapeMultiple # 0

\* C5: the constructor raises, and leaves no dataset, whenever for some
\* volume and some axis (shape[axis] - 2*padding) % length[axis] # 0 or
\* shape[axis] % 16 # 0, shape being the shape it checks; it succeeds only if
\* the invariant holds for every volume and every axis.
C5_ConstructorFailsFast ==
    res.op = "init" =>
        ((\E k \in DOMAIN res.shapes :
              InvariantViolated(CheckedShape(k), ds3.length, ds3.padding))
         <=> (res.err # NoErr /\ ~ds3.exists))
        \/ (ds3.transform.isNone /\ res.err # NoErr /\ ~ds3.exists)

\* A first volume that tiles and a second one that violates the invariant
\* on its last axis only: the constructor raised and left nothing.
C5_Witness ==
    /\ res.op = "init"
    /\ ~ds3.transform.isNone
    /\ Len(res.shapes) = 2
    /\ ~InvariantViolated(CheckedShape(1), ds3.length, ds3.padding)
    /\ CheckedShape(1)[1] - 2 * ds3.padding >= ds3.length[1]
    /\ (CheckedShape(2)[3] - 2 * ds3.padding) % ds3.length[3] # 0
    /\ res.err # NoErr
    /\ ~ds3.exists

\* C18: the constructor checks and enumerates against the size of the
\* CenterCrop3D stage when the pipeline has one, and otherwise, the default
\* transform None included, against each volume's own shape; it succeeds in
\* both cases when the invariant holds for every volume.
C18_ConstructionSucceeds ==
    (/\ res.op = "init"
     /\ \A k \in DOMAIN res.shapes :
           ~InvariantViolated(CheckedShape(k), ds3.length, ds3.padding))
    => /\ res.err = NoErr
       /\ ds3.exists
       /\ \A k \in DOMAIN res.shapes :
             WindowsOfVolume(k)
               = Windows3D(CheckedShape(k), ds3.length, ds3.padding, k - 1)

\* The channels of volume v cut to the bounds of window w.
CutTo(v, w) ==
    [file |-> v.file, canonical |-> v.canonical,
     lo |-> <<w.x_min, w.y_min, w.z_min>>,
     hi |-> <<w.x_max, w.y_max, w.z_max>>]

\* C26: get(i) at a position of a built dataset succeeds; its sample has
\* every input and ground-truth channel of the volume entry i references,
\* cut to the entry's bounds (length + 2 * padding on every axis), the
\* input metadata carry that volume's shape, and the pipeline has been
\* applied to it.
C26_GetReturnsWindow ==
    (ds3.exists /\ res.op = "getitem") =>
        LET w == ds3.indexes[res.index + 1]
            p == ds3.handlers[w.handler_index + 1]
        IN  /\ res.err = NoErr
            /\ res.ret.stages = ds3.transform.val
            /\ res.ret.sample.input
                  = [c \in DOMAIN p.input_handle |-> CutTo(VolumeOf(p.input_handle[c]), w)]
            /\ res.ret.sample.gt
                  = [c \in DOMAIN p.gt_handle |-> CutTo(VolumeOf(p.gt_handle[c]), w)]
            /\ \A c \in DOMAIN res.ret.sample.input :
                  /\ \A a \in 1..3 :
                        res.ret.sample.input[c].hi[a] - res.ret.sample.input[c].lo[a]
                           = ds3.length[a] + 2 * ds3.padding
                  /\ res.ret.sample.input_metadata[c]["data_shape"]
                        = p.input_handle[c].shape

\* A dataset of ManyVolumes single-window volumes, no center crop in the
\* pipeline, whose last position was asked and raised IndexError.
C26_LastOfManyRaises ==
    /\ ds3.exists
    /\ Len(ds3.handlers) = ManyVolumes
    /\ Len(ds3.indexes) = ManyVolumes
    /\ res.op = "getitem"
    /\ res.index = ManyVolumes - 1
    /\ res.err = "IndexError"

\* C26 for the pipelines without a center crop and fewer volumes than the
\* depth of the shallowest one.
C26_HoldsWithoutCrop ==
    (/\ ds3.exists
     /\ FirstCrop3D(ds3.transform.val) = 0
     /\ \A k \in DOMAIN ds3.handlers :
           Len(ds3.handlers) <= ds3.handlers[k].input_handle[1].shape[3])
    => C26_GetReturnsWindow



(***************************************************************************)
(* MRI2DSegmentationDataset and DatasetManager.                            *)
(***************************************************************************)

\* A transform is None, a Compose of stages (Some(stages)), or one bare
\* MTTransform object such as the ToTensor() compute_mean_std installs.
Bare(stage) == [isNone |-> FALSE, obj |-> stage]
IsCompose(transform) == "val" \in DOMAIN transform

\* A mutant of KeepsSlice: the predicate's answer is ignored.
KeepsSlice_Always(slice_filter_fn, sample) == TRUE

\* "not (self.slice_filter_fn and not filter_fn_ret_seg)".  A predicate is
\* the set of slice positions it answers False for; it reads the position
\* off the first input plane of the sample.
KeepsSlice(slice_filter_fn, sample) ==
    \/ slice_filter_fn.isNone
    \/ sample.input[1].pos \notin slice_filter_fn.val

\* The value a local name is bound to by one assignment: the element of a
\* one-element set.
TheOnly(S) == CHOOSE x \in S : TRUE

\* The inner loop of _load_filenames, from slice idx_pair_slice on.
RECURSIVE LoadSlices2D(_, _, _, _, _, _, _, _)
LoadSlices2D(seg_pair, roi_pair, slice_axis, slice_filter_fn, h, idx_pair_slice, n, indexes) ==
    IF idx_pair_slice >= n THEN [err |-> NoErr, heap |-> h, indexes |-> indexes]
    ELSE TheOnly({
           IF Raised(slice_seg_pair) THEN Raise(slice_seg_pair.err)
           ELSE IF ~KeepsSlice(slice_filter_fn, slice_seg_pair.ret)
           THEN LoadSlices2D(slice_seg_pair.obj, roi_pair, slice_axis,
                             slice_filter_fn, slice_seg_pair.heap,
                             idx_pair_slice + 1, n, indexes)
           ELSE TheOnly({
                  IF Raised(slice_roi_pair) THEN Raise(slice_roi_pair.err)
                  ELSE LoadSlices2D(slice_seg_pair.obj, slice_roi_pair.obj,
                                    slice_axis, slice_filter_fn,
                                    slice_roi_pair.heap, idx_pair_slice + 1, n,
                                    Append(indexes,
                                           [seg |-> slice_seg_pair.ret,
                                            roi |-> slice_roi_pair.ret]))
                  : slice_roi_pair \in {get_pair_slice(roi_pair, slice_seg_pair.heap,
                                                       idx_pair_slice, slice_axis)} })
           : slice_seg_pair \in {get_pair_slice(seg_pair, h, idx_pair_slice,
                                                slice_axis)} })

\* One iteration of the outer loop of _load_filenames, the two pairs built.
LoadGroup2D(roi_pair, seg_pair, slice_axis, slice_filter_fn, indexes) ==
    LET input_data_shape == get_pair_shapes(seg_pair.obj).input
    IN  IF Raised(roi_pair) THEN Raise(roi_pair.err)
        ELSE IF Raised(seg_pair) THEN Raise(seg_pair.err)
        ELSE IF slice_axis + 1 > Len(input_data_shape) THEN Raise("IndexError")
        ELSE LoadSlices2D(seg_pair.obj, roi_pair.obj, slice_axis, slice_filter_fn,
                          seg_pair.heap, 0, input_data_shape[slice_axis + 1], indexes)

\* MRI2DSegmentationDataset._load_filenames, from entry k on.
RECURSIVE LoadFilenames2D(_, _, _, _, _, _, _, _)
LoadFilenames2D(filename_pairs, slice_axis, cache, slice_filter_fn, canonical, h, k, indexes) ==
    IF k > Len(filename_pairs) THEN [err |-> NoErr, heap |-> h, indexes |-> indexes]
    ELSE LET g == filename_pairs[k]
         IN  TheOnly({
               IF Raised(slices) THEN Raise(slices.err)
               ELSE LoadFilenames2D(filename_pairs, slice_axis, cache, slice_filter_fn,
                                    canonical, slices.heap, k + 1, slices.indexes)
               : slices \in {
                   LoadGroup2D(roi_pair,
                               IF Raised(roi_pair) THEN roi_pair
                               ELSE SegmentationPair2D(g.input_filenames, g.gt_filenames,
                                                       g.metadata, cache, canonical,
                                                       roi_pair.heap),
                               slice_axis, slice_filter_fn, indexes)
                   : roi_pair \in {SegmentationPair2D(g.input_filenames, g.roi_filename,
                                                      g.metadata, cache, canonical, h)} } })

MRI2DSegmentationDataset(filename_pairs, slice_axis, cache, transform, slice_filter_fn, canonical, h) ==
    IF Len(filename_pairs) = 0 THEN Raise("IndexError")
    ELSE TheOnly({
           IF Raised(loaded) THEN Raise(loaded.err)
           ELSE [err |-> NoErr,
                 heap |-> loaded.heap,
                 obj |-> [exists |-> TRUE,
                          indexes |-> loaded.indexes,
                          filename_pairs |-> filename_pairs,
                          transform |-> transform,
                          cache |-> cache,
                          slice_axis |-> slice_axis,
                          slice_filter_fn |-> slice_filter_fn,
                          canonical |-> canonical,
                          n_contrasts |-> Len(filename_pairs[1].input_filenames)]]
           : loaded \in {LoadFilenames2D(filename_pairs, slice_axis, cache,
                                         slice_filter_fn, canonical, h, 1, <<>>)} })

\* MRI2DSegmentationDataset.set_transform
set_transform(ds, transform) == [ds EXCEPT !.transform = transform]

\* Image.fromarray(array, mode): 'F' keeps the floats, 'L' holds the array
\* scaled by 255 as uint8.
FromArray(plane, mode) == [image |-> plane, mode |-> mode]

\* F.to_tensor(pic): a PIL image becomes a tensor (an 'L' image divided by
\* 255); anything else raises TypeError.
IsImage(pic) == "mode" \in DOMAIN pic
ToTensorF(pic) == [tensor |-> pic.image, div255 |-> pic.mode = "L"]

\* ToTensor.__call__ (labeled=True) on a sample whose input and gt are lists.
ToTensorCall(sample) ==
    IF \E i \in DOMAIN sample.input : ~IsImage(sample.input[i])
    THEN Raise("TypeError")
    ELSE IF \E i \in DOMAIN sample.gt : ~IsImage(sample.gt[i])
    THEN Raise("TypeError")
    ELSE [err |-> NoErr,
          ret |-> [sample EXCEPT
                     !.input = [i \in DOMAIN sample.input |-> ToTensorF(sample.input[i])],
                     !.gt = [i \in DOMAIN sample.gt |-> ToTensorF(sample.gt[i])]]]

\* Compose.__call__ over ToTensor stages, from stage k on.
RECURSIVE ComposeCall(_, _, _)
ComposeCall(transforms, k, sample) ==
    IF k > Len(transforms) THEN [err |-> NoErr, ret |-> sample]
    ELSE LET r == ToTensorCall(sample)
         IN  IF Raised(r) THEN r ELSE ComposeCall(transforms, k + 1, r.ret)

\* self.transform(data_dict) when self.transform is not None.
ApplyTransform(transform, data_dict) ==
    IF transform.isNone THEN [err |-> NoErr, ret |-> data_dict]
    ELSE IF IsCompose(transform) THEN ComposeCall(transform.val, 1, data_dict)
    ELSE ToTensorCall(data_dict)

\* MRI2DSegmentationDataset.__getitem__: the sample, and the dataset
\* afterwards (a stored item without region of interest has its
\* 'gt_metadata' set to None).
getitem(ds, index) ==
    LET n == Len(ds.indexes)
        at == IF index < 0 THEN index + n + 1 ELSE index + 1
        seg_pair_slice == ds.indexes[at].seg
        roi_pair_slice == ds.indexes[at].roi
        no_roi == Len(roi_pair_slice.gt) = 0
        input_tensors == [i \in DOMAIN seg_pair_slice.input |->
                             FromArray(seg_pair_slice.input[i], "F")]
        gt_img == [i \in DOMAIN seg_pair_slice.gt |->
                      FromArray(seg_pair_slice.gt[i], "L")]
        roi_img == IF no_roi THEN None
                   ELSE Some([i \in DOMAIN roi_pair_slice.gt |->
                                 FromArray(roi_pair_slice.gt[i], "L")])
        roi_metadata == IF no_roi THEN None ELSE Some(roi_pair_slice.gt_metadata)
        data_dict == [input |-> input_tensors,
                      gt |-> gt_img,
                      roi |-> roi_img,
                      input_metadata |-> seg_pair_slice.input_metadata,
                      gt_metadata |-> seg_pair_slice.gt_metadata,
                      roi_metadata |-> roi_metadata]
        ds1 == IF no_roi
               THEN [ds EXCEPT !.indexes[at].roi.gt_metadata = None]
               ELSE ds
        r == ApplyTransform(ds.transform, data_dict)
    IN  IF index >= n \/ index < -n THEN [err |-> "IndexError", obj |-> ds]
        ELSE IF Raised(r) THEN [err |-> r.err, obj |-> ds1]
        ELSE [err |-> NoErr, obj |-> ds1, ret |-> r.ret]

\* mt_transforms.ToTensor(): the override compute_mean_std installs.
ToTensorOverride == Bare(ToTensorStage)

\* Python truth value of a transform: None is false, an object is true.
TransformTruthy(transform) == ~transform.isNone

\* DatasetManager.__init__ and __enter__ on the dataset: the manager's
\* _transform_state and the dataset afterwards.
ManagerEnter(ds, override_transform) ==
    IF TransformTruthy(override_transform)
    THEN [transform_state |-> ds.transform,
          dataset |-> [ds EXCEPT !.transform = override_transform]]
    ELSE [transform_state |-> None, dataset |-> ds]

\* DatasetManager.__exit__: the dataset afterwards.
ManagerExit(ds, transform_state) ==
    IF TransformTruthy(transform_state)
    THEN [ds EXCEPT !.transform = transform_state]
    ELSE ds

(***************************************************************************)
(* Spec2D: one MRI2DSegmentationDataset, constructed from up to MaxGroups  *)
(* volume-pair groups, then read, re-configured, and asked for its mean    *)
(* and standard deviation.  compute_mean_std is followed through its       *)
(* positions: entering the DatasetManager, each sample of the two passes,  *)
(* and the end of each pass.                                               *)
(***************************************************************************)
MaxGroups == 2         \* entries of filename_pairs

Files2D ==
    [a1 |-> VolFile(1, <<1, 2, 3>>, Zooms, IdPerm),
     a2 |-> VolFile(2, <<1, 2, 3>>, Zooms, IdPerm),
     b  |-> VolFile(3, <<2, 2, 2>>, Zooms, IdPerm)]

\* Entries of filename_pairs: one and two channels, with and without region
\* of interest, an unlabelled one without metadata, a labelled one without
\* metadata, one whose ground truth has another shape.
Groups2D ==
    { Group(<<Files2D.a1>>, Some(<<Files2D.a2>>), None, Some(<<1>>)),
      Group(<<Files2D.a1, Files2D.a2>>, Some(<<Files2D.a2>>), Some(<<Files2D.a1>>),
            Some(<<1, 2>>)),
      Group(<<Files2D.b>>, Some(<<Files2D.b>>), None, Some(<<2>>)),
      Group(<<Files2D.a1>>, Some(<<NoFile>>), None, None),
      Group(<<Files2D.a2>>, Some(<<Files2D.a1>>), None, None),
      Group(<<Files2D.a1>>, Some(<<Files2D.b>>), None, Some(<<1>>)) }

\* slice_filter_fn: None, or a predicate given by the positions it rejects.
Filters2D == {None, Some({0}), Some({1, 2})}

Transforms2D == {None, Some(<<ToTensorStage>>)}

Heap2D == [r \in 1..2 |-> ("subject" :> r)]

\* The position of the compute_mean_std call; prior is the dataset's
\* transform when the call began, configured the transform the caller last
\* chose (the constructor's argument, then each set_transform argument).
CmsIdle(transform) ==
    [pc |-> "idle", i |-> 0, transform_state |-> None, prior |-> None,
     configured |-> transform]

\* Before construction ds2 holds the configuration the dataset is then built
\* with; Dataset2DInit draws the groups.
Init2D ==
    /\ \E slice_axis \in {0, 1, 2}, slice_filter_fn \in Filters2D,
          transform \in Transforms2D :
          /\ ds2 = [exists |-> FALSE, slice_axis |-> slice_axis,
                    slice_filter_fn |-> slice_filter_fn, transform |-> transform]
          /\ cms = CmsIdle(transform)
    /\ heap = Heap2D
    /\ res = NoCall
    /\ pair = Unused
    /\ ds3 = Unused
    /\ crop = Unused
    /\ aug = Unused

\* MRI2DSegmentationDataset.__init__
Dataset2DInit ==
    /\ ~ds2.exists
    /\ res.op = "none"
    /\ \E n \in 0..MaxGroups :
       \E filename_pairs \in [1..n -> Groups2D] :
       \E r \in {MRI2DSegmentationDataset(filename_pairs, ds2.slice_axis, TRUE,
                                            ds2.transform, ds2.slice_filter_fn,
                                            FALSE, heap)} :
              /\ res' = [op |-> "init", err |-> r.err, filename_pairs |-> filename_pairs]
              /\ ds2' = IF Raised(r) THEN ds2 ELSE r.obj
              /\ heap' = IF Raised(r) THEN heap ELSE r.heap
    /\ UNCHANGED <<cms, pair, ds3, crop, aug>>

\* MRI2DSegmentationDataset.__len__
Dataset2DLen ==
    /\ ds2.exists
    /\ cms.pc = "idle"
    /\ res' = [op |-> "len", err |-> NoErr, ret |-> Len(ds2.indexes)]
    /\ UNCHANGED <<ds2, cms, heap, pair, ds3, crop, aug>>

\* MRI2DSegmentationDataset.__getitem__ at every position, at the last one
\* as index -1 too, and at the first missing position.
Dataset2DGetItem ==
    /\ ds2.exists
    /\ cms.pc = "idle"
    /\ \E index \in -1..Len(ds2.indexes) :
       \E r \in {getitem(ds2, index)} :
          /\ res' = IF Raised(r)
                    THEN [op |-> "getitem", err |-> r.err, index |-> index,
                          transform |-> ds2.transform]
                    ELSE [op |-> "getitem", err |-> NoErr, index |-> index,
                          transform |-> ds2.transform, ret |-> r.ret]
          /\ ds2' = r.obj
    /\ UNCHANGED <<cms, heap, pair, ds3, crop, aug>>

\* MRI2DSegmentationDataset.set_transform
Dataset2DSetTransform ==
    /\ ds2.exists
    /\ cms.pc = "idle"
    /\ \E transform \in Transforms2D :
          /\ ds2' = set_transform(ds2, transform)
          /\ cms' = [cms EXCEPT !.configured = transform]
          /\ res' = [op |-> "set_transform", err |-> NoErr]
    /\ UNCHANGED <<heap, pair, ds3, crop, aug>>

\* compute_mean_std up to the first pass: the accumulators are made and the
\* DatasetManager is entered.
ComputeMeanStdEnter ==
    /\ ds2.exists
    /\ cms.pc = "idle"
    /\ LET m == ManagerEnter(ds2, ToTensorOverride)
       IN  /\ cms' = [pc |-> "mean", i |-> 0, transform_state |-> m.transform_state,
                      prior |-> ds2.transform, configured |-> cms.configured]
           /\ ds2' = m.dataset
    /\ res' = [op |-> "compute_mean_std", err |-> NoErr]
    /\ UNCHANGED <<heap, pair, ds3, crop, aug>>

\* One iteration of "for sample in pbar": the sample is fetched and its
\* first n_contrasts inputs are read.  An exception leaves the with block
\* through DatasetManager.__exit__ and ends the call.
ComputeMeanStdSample ==
    /\ cms.pc \in {"mean", "std"}
    /\ cms.i < Len(ds2.indexes)
    /\ LET r == getitem(ds2, cms.i)
           err == IF Raised(r) THEN r.err
                  ELSE IF Len(r.ret.input) < ds2.n_contrasts THEN "IndexError"
                  ELSE NoErr
       IN  IF err # NoErr
           THEN /\ ds2' = ManagerExit(r.obj, cms.transform_state)
                /\ cms' = [cms EXCEPT !.pc = "idle"]
                /\ res' = [op |-> "compute_mean_std", err |-> err]
           ELSE /\ ds2' = r.obj
                /\ cms' = [cms EXCEPT !.i = cms.i + 1]
                /\ UNCHANGED res
    /\ UNCHANGED <<heap, pair, ds3, crop, aug>>

\* The end of a pass: after the first the second begins; after the second
\* the with block is left through DatasetManager.__exit__ and the call
\* returns (training_mean, training_std).
ComputeMeanStdPassEnd ==
    /\ cms.pc \in {"mean", "std"}
    /\ cms.i = Len(ds2.indexes)
    /\ IF cms.pc = "mean"
       THEN /\ cms' = [cms EXCEPT !.pc = "std", !.i = 0]
            /\ UNCHANGED <<ds2, res>>
       ELSE /\ ds2' = ManagerExit(ds2, cms.transform_state)
            /\ cms' = [cms EXCEPT !.pc = "idle"]
            /\ res' = [op |-> "compute_mean_std", err |-> NoErr,
                       ret |-> "training_mean, training_std"]
    /\ UNCHANGED <<heap, pair, ds3, crop, aug>>

Next2D ==
    \/ Dataset2DInit
    \/ Dataset2DLen
    \/ Dataset2DGetItem
    \/ Dataset2DSetTransform
    \/ ComputeMeanStdEnter
    \/ ComputeMeanStdSample
    \/ ComputeMeanStdPassEnd

Spec2D == Init2D /\ [][Next2D]_vars

\* MRI2DSegmentationDataset.__getitem__ called from a second thread while
\* compute_mean_std is between two of its steps.
Dataset2DGetItemDuring ==
    /\ ds2.exists
    /\ cms.pc \in {"mean", "std"}
    /\ \E index \in 0..(Len(ds2.indexes) - 1) :
       \E r \in {getitem(ds2, index)} :
          /\ res' = IF Raised(r)
                    THEN [op |-> "getitem", err |-> r.err, index |-> index,
                          transform |-> ds2.transform]
                    ELSE [op |-> "getitem", err |-> NoErr, index |-> index,
                          transform |-> ds2.transform, ret |-> r.ret]
          /\ ds2' = r.obj
    /\ UNCHANGED <<cms, heap, pair, ds3, crop, aug>>

\* Spec2D with the calls of a second thread let in between the steps of
\* compute_mean_std.
Next2DThreads ==
    \/ Next2D
    \/ Dataset2DGetItemDuring

Spec2DThreads == Init2D /\ [][Next2DThreads]_vars

(***************************************************************************)
(* Claims about MRI2DSegmentationDataset (Spec2D).                         *)
(***************************************************************************)

\* A valid group: a ground truth for every channel it lists, and every
\* volume, input or ground truth, of one 3-dimensional shape.
ValidGroup(g) ==
    /\ ~g.gt_filenames.isNone
    /\ Len(g.gt_filenames.val) > 0
    /\ \A i \in DOMAIN g.gt_filenames.val : g.gt_filenames.val[i] # NoFile
    /\ \A i \in DOMAIN g.input_filenames :
          g.input_filenames[i].shape = g.gt_filenames.val[1].shape
    /\ \A i \in DOMAIN g.gt_filenames.val :
          g.gt_filenames.val[i].shape = g.gt_filenames.val[1].shape
    /\ Len(g.gt_filenames.val[1].shape) = 3

\* The ground-truth extent of a group along the slicing axis.
GtExtent(g, slice_axis) == g.gt_filenames.val[1].shape[slice_axis + 1]

\* The slice positions of a group the predicate answered False for.
RejectedPositions(g, slice_axis, slice_filter_fn) ==
    IF slice_filter_fn.isNone THEN {}
    ELSE {i \in 0..(GtExtent(g, slice_axis) - 1) : i \in slice_filter_fn.val}

\* C1: the length of a dataset constructed from valid groups is the sum over
\* the groups of the ground-truth extent along the slicing axis minus the
\* number of slice positions the predicate answered False for; without a
\* predicate it is the plain sum of the extents.
C1_LengthIsExtentSum ==
    (ds2.exists /\ \A k \in DOMAIN ds2.filename_pairs : ValidGroup(ds2.filename_pairs[k]))
    => LET extents == [k \in DOMAIN ds2.filename_pairs |->
                          GtExtent(ds2.filename_pairs[k], ds2.slice_axis)]
           rejected == [k \in DOMAIN ds2.filename_pairs |->
                          Cardinality(RejectedPositions(ds2.filename_pairs[k],
                                                        ds2.slice_axis,
                                                        ds2.slice_filter_fn))]
       IN  /\ Len(ds2.indexes) = SumSeq(extents) - SumSeq(rejected)
           /\ ds2.slice_filter_fn.isNone => Len(ds2.indexes) = SumSeq(extents)
           /\ res.op = "len" => res.ret = SumSeq(extents) - SumSeq(rejected)

\* Two valid groups of different extents, a predicate that rejected some
\* slices and kept others, and the length asked.
C1_Witness ==
    /\ ds2.exists
    /\ res.op = "len"
    /\ Len(ds2.filename_pairs) = 2
    /\ \A k \in DOMAIN ds2.filename_pairs : ValidGroup(ds2.filename_pairs[k])
    /\ GtExtent(ds2.filename_pairs[1], ds2.slice_axis)
          # GtExtent(ds2.filename_pairs[2], ds2.slice_axis)
    /\ \A k \in DOMAIN ds2.filename_pairs :
          RejectedPositions(ds2.filename_pairs[k], ds2.slice_axis,
                            ds2.slice_filter_fn) # {}
    /\ res.ret > 0

\* C7: once compute_mean_std has finished, by returning or by raising in a
\* pass, the dataset's transform is the value it had just before the call,
\* whether that was a pipeline or None; during both passes the transform is
\* the ToTensor override.
C7_TransformRestored ==
    /\ (res.op = "compute_mean_std" /\ cms.pc = "idle")
          => ds2.transform = cms.prior
    /\ cms.pc \in {"mean", "std"} => ds2.transform = ToTensorOverride

\* Where the planes of an index entry come from: per plane <<file, position>>
\* (<<0, 0>> for a plane of zeros).
Origins(planes) == [c \in DOMAIN planes |-> <<planes[c].file, planes[c].pos>>]

EntryOrigins(e) ==
    [input |-> Origins(e.seg.input), gt |-> Origins(e.seg.gt),
     roi_input |-> Origins(e.roi.input), roi |-> Origins(e.roi.gt)]

\* The origins an entry for position pos of the files has; an absent list
\* gives no plane, a None entry of a list a plane of zeros.
OriginsAt(files, pos) ==
    IF files.isNone THEN <<>>
    ELSE [c \in DOMAIN files.val |->
            IF files.val[c] = NoFile THEN <<0, 0>> ELSE <<files.val[c].id, pos>>]

\* The entries of one group: one per position of its first input volume
\* that the predicate does not reject, in ascending order.
GroupOrigins(g, slice_axis, slice_filter_fn) ==
    LET extent == g.input_filenames[1].shape[slice_axis + 1]
        kept == SelectSeq([i \in 1..extent |-> i - 1],
                          LAMBDA pos : slice_filter_fn.isNone
                                       \/ pos \notin slice_filter_fn.val)
    IN  [i \in DOMAIN kept |->
            [input |-> OriginsAt(Some(g.input_filenames), kept[i]),
             gt |-> OriginsAt(g.gt_filenames, kept[i]),
             roi_input |-> OriginsAt(Some(g.input_filenames), kept[i]),
             roi |-> OriginsAt(g.roi_filename, kept[i])]]

RECURSIVE Flatten(_)
Flatten(seqs) == IF seqs = <<>> THEN <<>> ELSE Head(seqs) \o Flatten(Tail(seqs))

\* C23: in a constructed dataset every index entry pairs the ground-truth
\* slice and the region-of-interest slice of the same group at the same
\* position; only positions that survive the predicate have an entry, and
\* so a region-of-interest slice; the entries stand in group order and,
\* within a group, in ascending position.
C23_IndexPairsByPosition ==
    ds2.exists =>
        [i \in DOMAIN ds2.indexes |-> EntryOrigins(ds2.indexes[i])]
          = Flatten([k \in DOMAIN ds2.filename_pairs |->
                       GroupOrigins(ds2.filename_pairs[k], ds2.slice_axis,
                                    ds2.slice_filter_fn)])

\* A dataset of a group without and a group with region of interest, of
\* which the predicate rejected one position and kept two.
C23_Witness ==
    /\ ds2.exists
    /\ Len(ds2.filename_pairs) = 2
    /\ ds2.filename_pairs[1].roi_filename.isNone
    /\ ~ds2.filename_pairs[2].roi_filename.isNone
    /\ ds2.slice_axis = 2
    /\ ds2.slice_filter_fn = Some({0})
    /\ Len(ds2.indexes) = 4
    /\ ds2.indexes[4].roi.gt[1].pos = 2
    /\ ds2.indexes[4].seg.gt[1].pos = 2

\* C25: when no call overlaps another, every get(i) made outside
\* compute_mean_std is processed with the transform the caller configured
\* (the constructor's argument or the last set_transform argument).
C25_SerializedGetUsesConfigured ==
    (res.op = "getitem" /\ cms.pc = "idle") => res.transform = cms.configured

\* A get(i) of a second thread between two steps of compute_mean_std that
\* was processed with the ToTensor override although the caller configured
\* another transform.
C25_OverrideSeenByOtherThread ==
    /\ res.op = "getitem"
    /\ cms.pc \in {"mean", "std"}
    /\ res.transform = ToTensorOverride
    /\ cms.configured # ToTensorOverride

\* An index entry with its parts brought to one form: the metadata of the
\* region-of-interest slice is a list, or None.
EntryContent(e) ==
    [seg |-> e.seg,
     roi_input |-> e.roi.input,
     roi_gt |-> e.roi.gt,
     roi_input_metadata |-> e.roi.input_metadata,
     roi_gt_metadata |-> IF Len(e.roi.gt) # 0 THEN Some(e.roi.gt_metadata)
                         ELSE IF DOMAIN e.roi.gt_metadata = {} THEN Some(<<>>)
                         ELSE None]

IndexContent(ds) == [i \in DOMAIN ds.indexes |-> EntryContent(ds.indexes[i])]

\* C27: no get(i), set_transform or compute_mean_std changes the index of a
\* constructed dataset: the count, the order and the content of every
\* stored entry, metadata included, stay what construction made them.
C27_IndexNeverChanges ==
    [][(ds2.exists /\ ds2'.exists) => IndexContent(ds2') = IndexContent(ds2)]_vars

\* C27 without the metadata of the region-of-interest slice of the entries
\* that have no region of interest: everything else of the index stays.
C27_IndexKeptButNoRoiMetadata ==
    [][(ds2.exists /\ ds2'.exists) =>
          /\ Len(ds2'.indexes) = Len(ds2.indexes)
          /\ \A i \in DOMAIN ds2.indexes :
                \/ EntryContent(ds2'.indexes[i]) = EntryContent(ds2.indexes[i])
                \/ /\ Len(ds2.indexes[i].roi.gt) = 0
                   /\ [EntryContent(ds2'.indexes[i]) EXCEPT !.roi_gt_metadata = None]
                        = [EntryContent(ds2.indexes[i]) EXCEPT !.roi_gt_metadata = None]]_vars

\* C27, second half: two get(i) in a row at one position of a dataset
\* without transform return equal samples.
C27_RepeatedGetEqual ==
    [][(/\ ds2.exists
        /\ res.op = "getitem" /\ res.err = NoErr
        /\ res'.op = "getitem" /\ res'.err = NoErr
        /\ res'.index = res.index
        /\ res.transform = None /\ res'.transform = None)
       => res'.ret = res.ret]_vars

\* The group (its number in filename_pairs) every index entry was cut from.
GroupNumbers(ds) ==
    Flatten([k \in DOMAIN ds.filename_pairs |->
               [j \in DOMAIN GroupOrigins(ds.filename_pairs[k], ds.slice_axis,
                                          ds.slice_filter_fn) |-> k]])

\* The group of the entry a get(index) reads.
GroupAt(ds, index) ==
    ds.filename_pairs[GroupNumbers(ds)[IF index < 0 THEN index + Len(ds.indexes) + 1
                                       ELSE index + 1]]

\* A group with metadata, ground truth and region of interest.
FullGroup(g) ==
    /\ Truthy(g.metadata)
    /\ ~g.gt_filenames.isNone
    /\ ~g.roi_filename.isNone

\* Every dict of the list carries the sources under 'gt_filenames'.
AllNameSources(metadata, sources) ==
    \A c \in DOMAIN metadata :
       /\ "gt_filenames" \in DOMAIN metadata[c]
       /\ metadata[c]["gt_filenames"] = sources

\* C29: in a sample of a group that has metadata, ground truth and region
\* of interest, 'gt_filenames' of gt_metadata is the group's ground-truth
\* sources and 'gt_filenames' of roi_metadata is its region-of-interest
\* sources.
C29_FilenamesPerPair ==
    (/\ ds2.exists
     /\ res.op = "getitem" /\ res.err = NoErr
     /\ FullGroup(GroupAt(ds2, res.index)))
    => /\ AllNameSources(res.ret.gt_metadata, GroupAt(ds2, res.index).gt_filenames)
       /\ ~res.ret.roi_metadata.isNone
       /\ AllNameSources(res.ret.roi_metadata.val, GroupAt(ds2, res.index).roi_filename)

\* C29, the ground-truth half alone.
C29_GtFilenamesAreGtSources ==
    (/\ ds2.exists
     /\ res.op = "getitem" /\ res.err = NoErr
     /\ FullGroup(GroupAt(ds2, res.index)))
    => AllNameSources(res.ret.gt_metadata, GroupAt(ds2, res.index).gt_filenames)

\* A sample of a full group whose roi_metadata carries the ground-truth
\* sources under 'gt_filenames'.
C29_RoiCarriesGtSources ==
    /\ ds2.exists
    /\ res.op = "getitem" /\ res.err = NoErr
    /\ FullGroup(GroupAt(ds2, res.index))
    /\ GroupAt(ds2, res.index).roi_filename # GroupAt(ds2, res.index).gt_filenames
    /\ ~res.ret.roi_metadata.isNone
    /\ AllNameSources(res.ret.roi_metadata.val, GroupAt(ds2, res.index).gt_filenames)




\* The shape left when the axis counted from 0 is taken out of shape.
WithoutAxis(shape, axis) ==
    [j \in 1..(Len(shape) - 1) |-> IF j <= axis THEN shape[j] ELSE shape[j + 1]]

\* The planes are one per input file of the group g, in order, each of the
\* file's shape without the slicing axis.
PlanesOfGroup(planes, g, slice_axis) ==
    /\ Len(planes) = Len(g.input_filenames)
    /\ \A c \in DOMAIN planes :
          /\ planes[c].image.file = g.input_filenames[c].id
          /\ planes[c].image.shape = WithoutAxis(g.input_filenames[c].shape, slice_axis)

SampleKeys == {"input", "gt", "roi", "input_metadata", "gt_metadata", "roi_metadata"}

\* C17: for every index in [0, len) of a MRI2DSegmentationDataset without
\* transform, the sample returned has exactly the keys input, gt, roi,
\* input_metadata, gt_metadata and roi_metadata; input holds one plane per
\* input channel of its group, each of the volume shape with the slicing
\* axis removed; input_metadata is as long as input and gt_metadata as long
\* as gt; roi and roi_metadata are both None or lists of one length.
C17_SampleInterface ==
    (/\ res.op = "getitem"
     /\ ds2.transform.isNone
     /\ 0 <= res.index
     /\ res.index < Len(ds2.indexes))
    => /\ res.err = NoErr
       /\ DOMAIN res.ret = SampleKeys
       /\ \E k \in DOMAIN ds2.filename_pairs :
             PlanesOfGroup(res.ret.input, ds2.filename_pairs[k], ds2.slice_axis)
       /\ Len(res.ret.input_metadata) = Len(res.ret.input)
       /\ Len(res.ret.gt_metadata) = Len(res.ret.gt)
       /\ IF res.ret.roi.isNone THEN res.ret.roi_metadata.isNone
          ELSE /\ ~res.ret.roi_metadata.isNone
               /\ Len(res.ret.roi_metadata.val) = Len(res.ret.roi.val)

\* A sample of a group with two input channels and a region of interest,
\* sliced along axis 0 of volumes that are not cubes, was returned.
C17_Witness ==
    /\ res.op = "getitem"
    /\ res.err = NoErr
    /\ ds2.transform.isNone
    /\ res.index > 0
    /\ ds2.slice_axis = 0
    /\ Len(res.ret.input) = 2
    /\ res.ret.input[1].image.shape = <<2, 3>>
    /\ ~res.ret.roi.isNone
    /\ Len(res.ret.roi.val) = 1

\* A sample of a group without region of interest was returned.
C17_WitnessNoRoi ==
    /\ res.op = "getitem"
    /\ res.err = NoErr
    /\ ds2.transform.isNone
    /\ res.ret.roi.isNone
    /\ Len(res.ret.gt) = 1

(***************************************************************************)
(* Crop2D and CenterCrop2D.                                                *)
(***************************************************************************)

\* A PIL image: its size (w, h) and its pixels, addressed <<x, y>>.
Pixels(w, h) == (0..(w - 1)) \X (0..(h - 1))
ImageOf(w, h, px) == [w |-> w, h |-> h, px |-> px]

\* int(round(d / 2.)): Python 3 rounds a half to the even neighbour.
RoundHalf(d) ==
    LET q == d \div 2
    IN  IF d % 2 = 0 THEN q
        ELSE IF q % 2 = 0 THEN q ELSE q + 1

\* F.crop(img, i, j, h, w): the box with top-left corner (row i, column j);
\* pixels of the box outside the image are 0.
FCrop(img, i, j, h, w) ==
    LET at(x, y) == IF /\ 0 <= x + j /\ x + j < img.w
                       /\ 0 <= y + i /\ y + i < img.h
                    THEN img.px[<<x + j, y + i>>] ELSE 0
    IN  ImageOf(w, h, [c \in Pixels(w, h) |-> at(c[1], c[2])])

\* F.center_crop(img, output_size)
FCenterCrop(img, output_size) ==
    LET th == output_size[1]
        tw == output_size[2]
        i == RoundHalf(img.h - th)
        j == RoundHalf(img.w - tw)
    IN  FCrop(img, i, j, th, tw)

\* F.pad(img, (left, top, right, bottom)) with the default fill of 0.
FPad(img, padding) ==
    LET at(x, y) == IF /\ padding[1] <= x /\ x < padding[1] + img.w
                       /\ padding[2] <= y /\ y < padding[2] + img.h
                    THEN img.px[<<x - padding[1], y - padding[2]>>] ELSE 0
        w == img.w + padding[1] + padding[3]
        h == img.h + padding[2] + padding[4]
    IN  ImageOf(w, h, [c \in Pixels(w, h) |-> at(c[1], c[2])])

\* Crop2D.propagate_params: the input metadata afterwards.
propagate_params(sample, params) ==
    ("__centercrop" :> params) @@ sample.input_metadata

\* Crop2D.get_params
get_params(sample) ==
    IF "__centercrop" \in DOMAIN sample.input_metadata
    THEN [err |-> NoErr, ret |-> sample.input_metadata["__centercrop"]]
    ELSE Raise("KeyError")

\* A mutant of UndoPadding: the far pads forget the near ones.
UndoPadding_FromSize(fh, fw, w, h, th, tw) == <<fw, fh, w - tw, h - th>>

\* (pad_left, pad_top, pad_right, pad_bottom) of undo_transform.
UndoPadding(fh, fw, w, h, th, tw) ==
    LET pad_left == fw
        pad_right == w - pad_left - tw
        pad_top == fh
        pad_bottom == h - pad_top - th
    IN  <<pad_left, pad_top, pad_right, pad_bottom>>

\* Crop2D.undo_transform: the sample afterwards and the padding used.
undo_transform(size, sample) ==
    LET params == get_params(sample)
        padding == UndoPadding(params.ret[1], params.ret[2], params.ret[3],
                               params.ret[4], size[1], size[2])
    IN  IF Raised(params) THEN [err |-> params.err, sample |-> sample]
        ELSE [err |-> NoErr,
              padding |-> padding,
              sample |-> [sample EXCEPT !.input = FPad(sample.input, padding)]]

\* CenterCrop2D.__call__: the sample afterwards.  A labelled crop of a
\* sample without ground truth raises once the parameters are recorded.
CenterCrop2DCall(size, labeled, sample) ==
    LET w == sample.input.w
        h == sample.input.h
        th == size[1]
        tw == size[2]
        fh == RoundHalf(h - th)
        fw == RoundHalf(w - tw)
        params == <<fh, fw, w, h>>
        recorded == [sample EXCEPT !.input_metadata = propagate_params(sample, params)]
        input_data == FCenterCrop(sample.input, size)
    IN  IF ~labeled
        THEN [err |-> NoErr, sample |-> [recorded EXCEPT !.input = input_data]]
        ELSE IF sample.gt.isNone
        THEN [err |-> "TypeError", sample |-> recorded]
        ELSE [err |-> NoErr,
              sample |-> [recorded EXCEPT
                            !.input = input_data,
                            !.gt = Some(FCenterCrop(sample.gt.val, size)),
                            !.gt_metadata = ("__centercrop" :> params)
                                            @@ sample.gt_metadata]]

\* int(round(num / den)) for num >= 0 and den > 0, a half going to the even
\* neighbour.
RoundDiv(num, den) ==
    LET f == num \div den
        twice == 2 * (num % den)
    IN  IF twice < den THEN f
        ELSE IF twice > den THEN f + 1
        ELSE IF f % 2 = 0 THEN f ELSE f + 1

\* center_of_mass(np.array(roi_data).astype(np.int)) of a mask of zeros and
\* ones: the array has one row per image line, so the first coordinate is
\* the mean line (y) and the second the mean column (x), each as a fraction
\* over total; total = 0 gives nan.
center_of_mass(roi_data) ==
    LET ones == {c \in Pixels(roi_data.w, roi_data.h) : roi_data.px[c] # 0}
    IN  [first |-> SumSeq([k \in 1..roi_data.h |->
                     (k - 1) * Cardinality({c \in ones : c[2] = k - 1})]),
         second |-> SumSeq([k \in 1..roi_data.w |->
                     (k - 1) * Cardinality({c \in ones : c[1] = k - 1})]),
         total |-> Cardinality(ones)]

\* ROICrop2D.__call__: the sample afterwards.  int(round(nan)) raises
\* before anything is recorded.
ROICrop2DCall(size, labeled, sample) ==
    LET w == sample.input.w
        h == sample.input.h
        th == size[1]
        tw == size[2]
        th_half == RoundHalf(th)
        tw_half == RoundHalf(tw)
        com == center_of_mass(sample.roi)
        x_roi == RoundDiv(com.first, com.total)
        y_roi == RoundDiv(com.second, com.total)
        fh == y_roi - th_half
        fw == x_roi - tw_half
        params == <<fh, fw, w, h>>
        recorded == [sample EXCEPT !.input_metadata = propagate_params(sample, params)]
        input_data == FCrop(sample.input, fw, fh, tw, th)
    IN  IF com.total = 0
        THEN [err |-> "ValueError", sample |-> sample]
        ELSE IF ~labeled
        THEN [err |-> NoErr, sample |-> [recorded EXCEPT !.input = input_data]]
        ELSE IF sample.gt.isNone
        THEN [err |-> "TypeError", sample |-> recorded]
        ELSE [err |-> NoErr,
              sample |-> [recorded EXCEPT
                            !.input = input_data,
                            !.gt = Some(FCrop(sample.gt.val, fw, fh, tw, th)),
                            !.gt_metadata = ("__centercrop" :> params)
                                            @@ sample.gt_metadata]]

(***************************************************************************)
(* SpecCrop: one sample of a W x H image with a region-of-interest mask,   *)
(* cropped to a size that fits the image, by CenterCrop2D or by ROICrop2D, *)
(* and then un-cropped.                                                    *)
(***************************************************************************)
MaxSide == 3           \* image width and height: 1..MaxSide

\* An image whose pixels are all different and none 0.
SourceImage(w, h) == ImageOf(w, h, [c \in Pixels(w, h) |-> 1 + c[1] + w * c[2]])
MaskImage(w, h) == ImageOf(w, h, [c \in Pixels(w, h) |-> 1])

\* The masks of a W x H image that are 1 on a box of pixels (x0..x1, y0..y1)
\* and 0 elsewhere; x1 < x0 gives the empty mask.
RoiMasks(w, h) ==
    { ImageOf(w, h, [c \in Pixels(w, h) |->
         IF c[1] \in b[1]..b[2] /\ c[2] \in b[3]..b[4] THEN 1 ELSE 0]) :
      b \in {<<1, 0, 0, 0>>} \cup
            {b \in (0..(w - 1)) \X (0..(w - 1)) \X (0..(h - 1)) \X (0..(h - 1)) :
                b[1] <= b[2] /\ b[3] <= b[4]} }

InitCrop ==
    /\ \E w \in 1..MaxSide, h \in 1..MaxSide, labeled \in BOOLEAN,
          has_gt \in BOOLEAN :
       \E th \in 1..h, tw \in 1..w, roi \in RoiMasks(w, h) :
          crop = [exists |-> TRUE,
                  stage |-> "fresh",
                  size |-> <<th, tw>>,
                  labeled |-> labeled,
                  original |-> SourceImage(w, h),
                  cropped |-> None,
                  padding |-> None,
                  params |-> None,
                  sample |-> [input |-> SourceImage(w, h),
                              gt |-> IF has_gt THEN Some(MaskImage(w, h)) ELSE None,
                              roi |-> roi,
                              input_metadata |-> EmptyDict,
                              gt_metadata |-> EmptyDict]]
    /\ res = NoCall
    /\ heap = <<>>
    /\ pair = Unused
    /\ ds3 = Unused
    /\ ds2 = Unused
    /\ cms = Unused
    /\ aug = Unused

\* CenterCrop2D(size, labeled)(sample)
CenterCropCall ==
    /\ crop.stage = "fresh"
    /\ LET r == CenterCrop2DCall(crop.size, crop.labeled, crop.sample)
       IN  /\ crop' = [crop EXCEPT
                         !.sample = r.sample,
                         !.stage = IF Raised(r) THEN "failed" ELSE "cropped",
                         !.cropped = IF Raised(r) THEN None ELSE Some(r.sample.input),
                         !.params = Some(r.sample.input_metadata["__centercrop"])]
           /\ res' = [op |-> "call", err |-> r.err]
    /\ UNCHANGED <<heap, pair, ds3, ds2, cms, aug>>

\* ROICrop2D(size, labeled)(sample)
ROICropCall ==
    /\ crop.stage = "fresh"
    /\ \E r \in {ROICrop2DCall(crop.size, crop.labeled, crop.sample)} :
          /\ crop' = [crop EXCEPT
                        !.sample = r.sample,
                        !.stage = IF Raised(r) THEN "failed" ELSE "roi_cropped",
                        !.cropped = IF Raised(r) THEN None ELSE Some(r.sample.input),
                        !.params = IF r.err = "ValueError" THEN None
                                   ELSE Some(r.sample.input_metadata["__centercrop"])]
          /\ res' = [op |-> "roi_call", err |-> r.err]
    /\ UNCHANGED <<heap, pair, ds3, ds2, cms, aug>>

\* CenterCrop2D(size, labeled).undo_transform(sample)
CropUndoTransform ==
    /\ crop.stage \in {"fresh", "cropped", "roi_cropped", "failed"}
    /\ res.op # "undo_transform"
    /\ LET r == undo_transform(crop.size, crop.sample)
       IN  /\ crop' = IF Raised(r) THEN crop
                      ELSE [crop EXCEPT
                              !.sample = r.sample,
                              !.padding = Some(r.padding),
                              !.stage = CASE crop.stage = "cropped" -> "undone"
                                          [] crop.stage = "roi_cropped" -> "roi_undone"
                                          [] OTHER -> "undone_uncropped"]
           /\ res' = [op |-> "undo_transform", err |-> r.err]
    /\ UNCHANGED <<heap, pair, ds3, ds2, cms, aug>>

NextCrop ==
    \/ CenterCropCall
    \/ ROICropCall
    \/ CropUndoTransform

SpecCrop == InitCrop /\ [][NextCrop]_vars

(***************************************************************************)
(* Claims about the crop transforms (SpecCrop).                            *)
(***************************************************************************)

\* C6: for a W x H image and a crop size (th, tw) with tw <= W and th <= H,
\* CenterCrop2D followed by undo_transform gives an input of size W x H in
\* which the cropped content sits at the recorded (top, left) offset, where
\* it was taken from, and every other pixel is 0; the pads satisfy
\* pad_left + tw + pad_right = W, pad_top + th + pad_bottom = H and are all
\* >= 0.
C6_CropUndoRoundTrip ==
    crop.stage = "undone" =>
        LET W == crop.original.w
            H == crop.original.h
            th == crop.size[1]
            tw == crop.size[2]
            top == crop.sample.input_metadata["__centercrop"][1]
            left == crop.sample.input_metadata["__centercrop"][2]
            out == crop.sample.input
            pad == crop.padding.val
            inside(x, y) == /\ left <= x /\ x < left + tw
                            /\ top <= y /\ y < top + th
        IN  /\ out.w = W /\ out.h = H
            /\ DOMAIN out.px = Pixels(W, H)
            /\ \A c \in Pixels(W, H) :
                  IF inside(c[1], c[2])
                  THEN /\ out.px[c] = crop.cropped.val.px[<<c[1] - left, c[2] - top>>]
                       /\ out.px[c] = crop.original.px[c]
                  ELSE out.px[c] = 0
            /\ pad[1] + tw + pad[3] = W
            /\ pad[2] + th + pad[4] = H
            /\ \A k \in 1..4 : pad[k] >= 0

\* A crop strictly smaller than the image on both axes, off-centre by the
\* rounding on one of them, cropped and undone.
C6_Witness ==
    /\ crop.stage = "undone"
    /\ crop.size[1] < crop.original.h
    /\ crop.size[2] < crop.original.w
    /\ crop.padding.val[1] # crop.padding.val[3]
    /\ crop.padding.val[2] + crop.padding.val[4] > 0

\* The pixel of img at column x and line y, 0 outside the image.
PixelAt(img, x, y) ==
    IF 0 <= x /\ x < img.w /\ 0 <= y /\ y < img.h THEN img.px[<<x, y>>] ELSE 0

\* The content of part is the box of whole with top line top and left column
\* left.
IsWindow(part, whole, top, left) ==
    \A c \in Pixels(part.w, part.h) :
        part.px[c] = PixelAt(whole, c[1] + left, c[2] + top)

Tensor(shape) == [kind |-> "tensor", shape |-> shape]
NdArray(dtype, shape) == [kind |-> "ndarray", dtype |-> dtype, shape |-> shape]
NpScalar(dtype) == [kind |-> "numpy_scalar", dtype |-> dtype]
PyInt(v) == [kind |-> "int", v |-> v]
PyFloat(v) == [kind |-> "float", v |-> v]
PyStr(v) == [kind |-> "str", chars |-> v]
PyNone == [kind |-> "None"]
PyDict(keys, vals) == [kind |-> "dict", keys |-> keys, vals |-> vals]
PyList(items) == [kind |-> "list", items |-> items]

\* A numpy dtype: dtype.str is the byte order, the kind letter and the item
\* size ('<f4', '<U1', '|S1', '|O').
DType(byteorder, char, itemsize) ==
    [byteorder |-> byteorder, char |-> char, itemsize |-> itemsize]

\* re.search('[SaUO]', elem.dtype.str): only the kind letter can be one of
\* the four.
StringOrObjectDtype(dtype) ==
    \E c \in {dtype.byteorder, dtype.char} : c \in {"S", "a", "U", "O"}

\* The keys of __numpy_type_map.
NumpyTypeMap ==
    {"float64", "float32", "float16", "int64", "int32", "int16", "int8", "uint8"}

\* The first position of a sequence of results that raised (0: none).
FirstRaised(rs) ==
    IF \E i \in DOMAIN rs : Raised(rs[i])
    THEN CHOOSE i \in DOMAIN rs : Raised(rs[i]) /\ \A j \in 1..(i - 1) : ~Raised(rs[j])
    ELSE 0

\* min(len(b) for b in batch): the length zip(*batch) stops at.
ZipLen(batch) ==
    CHOOSE n \in {Len(batch[i].items) : i \in DOMAIN batch} :
        \A i \in DOMAIN batch : n <= Len(batch[i].items)

\* The last line of mt_collate, reached when no branch took the batch.
mt_collate_fallthrough(batch) ==
    [err |-> NoErr, ret |-> PyList(batch)]

RECURSIVE mt_collate(_)
mt_collate(batch) ==
    IF Len(batch) = 0 THEN Raise("IndexError")
    ELSE LET elem == batch[1]
             same == \A i \in DOMAIN batch : batch[i].kind = elem.kind
         IN  CASE elem.kind = "tensor" ->
                    IF ~same THEN Raise("TypeError")
                    ELSE IF \E i \in DOMAIN batch : batch[i].shape # elem.shape
                    THEN Raise("RuntimeError")
                    ELSE [err |-> NoErr, ret |-> Tensor(<<Len(batch)>> \o elem.shape)]
               [] elem.kind = "ndarray" ->
                    IF StringOrObjectDtype(elem.dtype) THEN Raise("TypeError")
                    ELSE IF ~same THEN Raise("TypeError")
                    ELSE IF \E i \in DOMAIN batch : StringOrObjectDtype(batch[i].dtype)
                    THEN Raise("TypeError")
                    ELSE IF \E i \in DOMAIN batch : batch[i].shape # elem.shape
                    THEN Raise("RuntimeError")
                    ELSE [err |-> NoErr, ret |-> Tensor(<<Len(batch)>> \o elem.shape)]
               [] elem.kind = "numpy_scalar" ->
                    IF ~same THEN Raise("TypeError")
                    ELSE IF elem.dtype \notin NumpyTypeMap THEN Raise("KeyError")
                    ELSE [err |-> NoErr, ret |-> Tensor(<<Len(batch)>>)]
               [] elem.kind \in {"int", "float"} ->
                    IF ~same THEN Raise("TypeError")
                    ELSE [err |-> NoErr, ret |-> Tensor(<<Len(batch)>>)]
               [] elem.kind = "str" ->
                    [err |-> NoErr, ret |-> PyList(batch)]
               [] elem.kind = "dict" ->
                    IF ~same THEN Raise("TypeError")
                    ELSE IF \E i \in DOMAIN batch :
                               \E k \in DOMAIN elem.keys :
                                  elem.keys[k] \notin DOMAIN batch[i].vals
                    THEN Raise("KeyError")
                    ELSE LET rs == [k \in DOMAIN elem.keys |->
                                      mt_collate([i \in DOMAIN batch |->
                                                    batch[i].vals[elem.keys[k]]])]
                         IN  IF FirstRaised(rs) # 0 THEN Raise(rs[FirstRaised(rs)].err)
                             ELSE [err |-> NoErr,
                                   ret |-> PyDict(elem.keys,
                                                  [key \in Range(elem.keys) |->
                                                     rs[CHOOSE k \in DOMAIN elem.keys :
                                                           elem.keys[k] = key].ret])]
               [] elem.kind = "list" ->
                    IF ~same THEN Raise("TypeError")
                    ELSE LET rs == [k \in 1..ZipLen(batch) |->
                                      mt_collate([i \in DOMAIN batch |-> batch[i].items[k]])]
                         IN  IF FirstRaised(rs) # 0 THEN Raise(rs[FirstRaised(rs)].err)
                             ELSE [err |-> NoErr,
                                   ret |-> PyList([k \in DOMAIN rs |-> rs[k].ret])]
               [] OTHER -> mt_collate_fallthrough(batch)

(***************************************************************************)
(* SpecCollate: mt_collate called on batches of up to MaxBatch elements,   *)
(* all of one kind or with None among them.                                *)
(***************************************************************************)
MaxBatch == 2          \* elements of one batch

CollateLeaves ==
    { Tensor(<<2>>), Tensor(<<3>>),
      NdArray(DType("<", "f", 4), <<2>>), NdArray(DType("<", "U", 1), <<2>>),
      NdArray(DType("|", "O", 8), <<2>>), NdArray(DType("|", "S", 1), <<2>>),
      NpScalar("float64"), NpScalar("int64"), NpScalar("bool"),
      PyInt(1), PyFloat(1), PyStr("a"), PyNone }

\* Samples as the datasets build them: mappings and lists over the leaves.
CollateElems ==
    CollateLeaves
    \cup {PyDict(<<"input", "roi">>, ("input" :> x) @@ ("roi" :> y)) :
             x \in {Tensor(<<2>>)}, y \in {Tensor(<<2>>), PyNone}}
    \cup {PyList(<<x>>) : x \in {Tensor(<<2>>), PyNone, PyInt(1)}}
    \cup {PyList(<<>>)}

\* The batches drawn: every element of the kind of some element, or None.
CollateBatches ==
    {b \in SeqsUpTo(CollateElems, 0, MaxBatch) :
        \A i, j \in DOMAIN b :
           b[i].kind = b[j].kind \/ b[i] = PyNone \/ b[j] = PyNone}

InitCollate ==
    /\ res = NoCall
    /\ heap = <<>>
    /\ pair = Unused
    /\ ds3 = Unused
    /\ ds2 = Unused
    /\ cms = Unused
    /\ crop = Unused
    /\ aug = Unused

\* mt_collate(batch)
Collate ==
    /\ \E batch \in CollateBatches :
       \E r \in {mt_collate(batch)} :
          res' = IF Raised(r) THEN [op |-> "mt_collate", err |-> r.err, batch |-> batch]
                 ELSE [op |-> "mt_collate", err |-> NoErr, batch |-> batch, ret |-> r.ret]
    /\ UNCHANGED <<heap, pair, ds3, ds2, cms, crop, aug>>

NextCollate == Collate

SpecCollate == InitCollate /\ [][NextCollate]_vars

(***************************************************************************)
(* Claims about mt_collate (SpecCollate).                                  *)
(***************************************************************************)

\* An element of a kind mt_collate does not recognise: not a tensor, a
\* numeric array or scalar, a number, a string, a mapping or a sequence.
Unrecognised(x) ==
    \/ x.kind = "None"
    \/ x.kind = "ndarray" /\ StringOrObjectDtype(x.dtype)

\* C11: mt_collate raises TypeError for every batch whose elements are of a
\* kind it does not recognise (None, an array of string or object dtype);
\* it never returns such a batch unchanged.
C11_UnrecognisedRaises ==
    (/\ res.op = "mt_collate"
     /\ Len(res.batch) > 0
     /\ \A i \in DOMAIN res.batch : Unrecognised(res.batch[i]))
    => res.err = "TypeError"

(***************************************************************************)
(* RandomAffine and ElasticTransform.  A channel is a row of pixels whose  *)
(* values are counted in quarters, so that 0.5 and the means of two        *)
(* neighbours are whole numbers.  A warp is given by the place, counted in *)
(* half pixels to the right of the pixel itself, that each pixel of the    *)
(* output is sampled from.                                                 *)
(***************************************************************************)
Half == 2              \* the threshold 0.5, in quarters
One == 2 * Half        \* 1.0

\* Sampling a channel at pos2 half pixels with linear interpolation; a pixel
\* outside the channel counts as fill.
SampleAt(channel, pos2, fill) ==
    LET at(k) == IF k \in DOMAIN channel THEN channel[k] ELSE fill
        lo == pos2 \div 2
    IN  IF pos2 % 2 = 0 THEN at(lo) ELSE (at(lo) + at(lo + 1)) \div 2

\* F.affine(img, *params, resample, fillcolor): params fix where each pixel
\* of the output is sampled.
FAffine(img, params, fillcolor) ==
    [i \in DOMAIN img |-> SampleAt(img, 2 * i + params[i], fillcolor)]

\* ElasticTransform.elastic_transform(image, alpha, sigma) for the
\* displacement dx it draws: map_coordinates(image, x + dx, order=1).
elastic_transform(image, dx) ==
    [i \in DOMAIN image |-> SampleAt(image, 2 * i + dx[i], 0)]

\* A mutant of Binarise: the comparison of Resample.resample_bin.
Binarise_Strict(np_gt_data) ==
    [i \in DOMAIN np_gt_data |-> IF np_gt_data[i] > Half THEN One ELSE 0]

\* np_gt_data[np_gt_data >= 0.5] = 1.0; np_gt_data[np_gt_data < 0.5] = 0.0
Binarise(np_gt_data) ==
    LET upper == [i \in DOMAIN np_gt_data |->
                    IF np_gt_data[i] >= Half THEN One ELSE np_gt_data[i]]
    IN  [i \in DOMAIN upper |-> IF upper[i] < Half THEN 0 ELSE upper[i]]

\* RandomAffine.__call__ for the params get_params drew: the sample
\* afterwards and the ground truth as warped, before it is binarised.
RandomAffineCall(labeled, fillcolor, sample, params) ==
    LET ret_input == [c \in DOMAIN sample.input |->
                        FAffine(sample.input[c], params, fillcolor)]
        warped == [c \in DOMAIN sample.gt |->
                     FAffine(sample.gt[c], params, fillcolor)]
        ret_gt == [c \in DOMAIN warped |-> Binarise(warped[c])]
    IN  IF labeled
        THEN [sample |-> [sample EXCEPT !.input = ret_input, !.gt = ret_gt],
              warped |-> warped]
        ELSE [sample |-> [sample EXCEPT !.input = ret_input], warped |-> <<>>]

\* ElasticTransform.__call__ for the draw np.random.random() < self.p and
\* the displacement each call of elastic_transform drew: fields[c] for input
\* channel c, gt_fields[c] for ground-truth channel c.
ElasticTransformCall(labeled, sample, applied, fields, gt_fields) ==
    LET ret_input == [c \in DOMAIN sample.input |->
                        elastic_transform(sample.input[c], fields[c])]
        warped == [c \in DOMAIN sample.gt |->
                     elastic_transform(sample.gt[c], gt_fields[c])]
        ret_gt == [c \in DOMAIN warped |-> Binarise(warped[c])]
    IN  IF ~applied THEN [sample |-> sample, warped |-> <<>>]
        ELSE IF labeled
        THEN [sample |-> [sample EXCEPT !.input = ret_input, !.gt = ret_gt],
              warped |-> warped]
        ELSE [sample |-> [sample EXCEPT !.input = ret_input], warped |-> <<>>]

(***************************************************************************)
(* SpecAug: one 2D sample with one input channel and one ground-truth      *)
(* channel of MaxPixels pixels, given once to RandomAffine or to           *)
(* ElasticTransform.                                                       *)
(***************************************************************************)
MaxPixels == 2         \* pixels of a channel
MaxDisp == 2           \* displacements of a warp: 0..MaxDisp half pixels

InputChannel == [i \in 1..MaxPixels |-> IF i % 2 = 1 THEN One ELSE 0]
GtChannels == [1..MaxPixels -> {0, Half, One}]
Fields == [1..MaxPixels -> 0..MaxDisp]

InitAug ==
    /\ \E gt \in GtChannels, labeled \in BOOLEAN :
          aug = [exists |-> TRUE,
                 stage |-> "fresh",
                 labeled |-> labeled,
                 original |-> [input |-> <<InputChannel>>, gt |-> <<gt>>],
                 sample |-> [input |-> <<InputChannel>>, gt |-> <<gt>>]]
    /\ res = NoCall
    /\ heap = <<>>
    /\ pair = Unused
    /\ ds3 = Unused
    /\ ds2 = Unused
    /\ cms = Unused
    /\ crop = Unused

\* RandomAffine(degrees, ..., labeled)(sample), fillcolor its default 0
AugRandomAffine ==
    /\ aug.stage = "fresh"
    /\ \E params \in Fields :
       \E r \in {RandomAffineCall(aug.labeled, 0, aug.sample, params)} :
          /\ aug' = [aug EXCEPT !.stage = "called", !.sample = r.sample]
          /\ res' = [op |-> "RandomAffine", err |-> NoErr, applied |-> TRUE,
                     fields |-> <<params>>, gt_fields |-> <<params>>,
                     warped |-> r.warped]
    /\ UNCHANGED <<heap, pair, ds3, ds2, cms, crop>>

\* ElasticTransform(alpha_range, sigma_range, p, labeled)(sample)
AugElasticTransform ==
    /\ aug.stage = "fresh"
    /\ \E applied \in BOOLEAN :
       \E fields \in IF applied THEN [DOMAIN aug.sample.input -> Fields]
                     ELSE {<<>>} :
       \E gt_fields \in IF applied /\ aug.labeled
                        THEN [DOMAIN aug.sample.gt -> Fields] ELSE {<<>>} :
       \E r \in {ElasticTransformCall(aug.labeled, aug.sample, applied,
                                      fields, gt_fields)} :
          /\ aug' = [aug EXCEPT !.stage = "called", !.sample = r.sample]
          /\ res' = [op |-> "ElasticTransform", err |-> NoErr,
                     applied |-> applied, fields |-> fields,
                     gt_fields |-> gt_fields, warped |-> r.warped]
    /\ UNCHANGED <<heap, pair, ds3, ds2, cms, crop>>

NextAug ==
    \/ AugRandomAffine
    \/ AugElasticTransform

SpecAug == InitAug /\ [][NextAug]_vars

(***************************************************************************)
(* Claims about RandomAffine and ElasticTransform (SpecAug).               *)
(***************************************************************************)
IsBinary(channel) == \A i \in DOMAIN channel : channel[i] \in {0, One}

LabeledCall == res.op \in {"RandomAffine", "ElasticTransform"} /\ aug.labeled

\* C12 as stated: after a call of RandomAffine or of ElasticTransform on a
\* labeled sample every ground-truth channel holds only 0.0 and 1.0,
\* whatever was drawn, the draw that skips the deformation included.
C12_GtBinaryAfterEveryCall ==
    LabeledCall => \A c \in DOMAIN aug.sample.gt : IsBinary(aug.sample.gt[c])

\* C12: after a call of RandomAffine, or of ElasticTransform whose draw
\* applies the deformation, on a labeled sample every ground-truth channel
\* holds only 0.0 and 1.0: 1.0 where the warped value is at least 0.5 and
\* 0.0 where it is below; a call whose draw skips the deformation returns
\* the ground truth as it was.
C12_GtBinaryWhenWarped ==
    LabeledCall =>
       IF res.applied
       THEN \A c \in DOMAIN aug.sample.gt :
               /\ IsBinary(aug.sample.gt[c])
               /\ \A i \in DOMAIN aug.sample.gt[c] :
                     aug.sample.gt[c][i] = One <=> res.warped[c][i] >= Half
       ELSE aug.sample.gt = aug.original.gt

\* An elastic deformation was applied and warped a ground-truth pixel to
\* exactly 0.5 and another to a value strictly between 0 and 0.5.
C12_Witness ==
    /\ LabeledCall
    /\ res.op = "ElasticTransform"
    /\ res.applied
    /\ \E i, j \in DOMAIN res.warped[1] :
          /\ res.warped[1][i] = Half
          /\ res.warped[1][j] \in 1..(Half - 1)
          /\ aug.sample.gt[1][i] = One
          /\ aug.sample.gt[1][j] = 0

\* C21: a call of ElasticTransform that applies the deformation warps every
\* input channel and every ground-truth channel of the sample with one and
\* the same displacement field.
C21_OneFieldPerCall ==
    (/\ res.op = "ElasticTransform"
     /\ res.applied
     /\ aug.labeled)
    => \A c \in DOMAIN res.fields, d \in DOMAIN res.gt_fields :
          /\ res.fields[c] = res.fields[1]
          /\ res.gt_fields[d] = res.fields[1]

(***************************************************************************)
(* RandomReverse3D.  A 3D array is its shape and its voxels, addressed     *)
(* <<i, j, k>> from 0.                                                     *)
(***************************************************************************)
Coords(shape) ==
    (0..(shape[1] - 1)) \X (0..(shape[2] - 1)) \X (0..(shape[3] - 1))

\* A mutant of Flip: the axis is rolled by one place, not reversed.
Flip_Roll(m, axis) ==
    [m EXCEPT !.vox = [c \in Coords(m.shape) |->
       m.vox[[c EXCEPT ![axis + 1] = (c[axis + 1] + 1) % m.shape[axis + 1]]]]]

\* np.flip(m, axis=axis).copy()
Flip(m, axis) ==
    [m EXCEPT !.vox = [c \in Coords(m.shape) |->
       m.vox[[c EXCEPT ![axis + 1] = m.shape[axis + 1] - 1 - c[axis + 1]]]]]

\* RandomReverse3D.__call__ for the three draws np.random.randint(2) == 1:
\* the sample afterwards.
RandomReverse3DCall(labeled, sample, draws) ==
    LET in0 == IF draws[1] THEN Flip(sample.input, 0) ELSE sample.input
        in1 == IF draws[2] THEN Flip(in0, 1) ELSE in0
        in2 == IF draws[3] THEN Flip(in1, 2) ELSE in1
        gt0 == IF draws[1] THEN Flip(sample.gt, 0) ELSE sample.gt
        gt1 == IF draws[2] THEN Flip(gt0, 1) ELSE gt0
        gt2 == IF draws[3] THEN Flip(gt1, 2) ELSE gt1
    IN  IF labeled THEN [sample EXCEPT !.input = in2, !.gt = gt2]
        ELSE [sample EXCEPT !.input = in2]

(***************************************************************************)
(* SpecReverse: a 3D sample given to RandomReverse3D up to MaxCalls times. *)
(* The voxels of the input are all different, and each voxel of the        *)
(* ground truth is the negative of the input voxel at its place.           *)
(***************************************************************************)
MaxCalls == 2          \* calls of RandomReverse3D on one sample

ReverseShapes == {<<2, 2, 2>>, <<1, 2, 3>>, <<3, 1, 2>>}

InputArray(shape) ==
    [shape |-> shape,
     vox |-> [c \in Coords(shape) |->
                1 + c[1] + shape[1] * (c[2] + shape[2] * c[3])]]

GtArray(shape) ==
    [shape |-> shape,
     vox |-> [c \in Coords(shape) |-> 0 - InputArray(shape).vox[c]]]

InitReverse ==
    /\ \E shape \in ReverseShapes, labeled \in BOOLEAN :
          aug = [exists |-> TRUE,
                 labeled |-> labeled,
                 draws |-> <<>>,
                 samples |-> <<[input |-> InputArray(shape),
                                gt |-> GtArray(shape)]>>]
    /\ res = NoCall
    /\ heap = <<>>
    /\ pair = Unused
    /\ ds3 = Unused
    /\ ds2 = Unused
    /\ cms = Unused
    /\ crop = Unused

\* RandomReverse3D(labeled)(sample); aug.samples keeps the sample as it was
\* before each call, and last as it is now.
AugRandomReverse3D ==
    /\ Len(aug.draws) < MaxCalls
    /\ \E draws \in [1..3 -> BOOLEAN] :
       \E r \in {RandomReverse3DCall(aug.labeled,
                                     aug.samples[Len(aug.samples)], draws)} :
          /\ aug' = [aug EXCEPT !.draws = Append(@, draws),
                                !.samples = Append(@, r)]
          /\ res' = [op |-> "RandomReverse3D", err |-> NoErr]
    /\ UNCHANGED <<heap, pair, ds3, ds2, cms, crop>>

NextReverse == AugRandomReverse3D

SpecReverse == InitReverse /\ [][NextReverse]_vars

(***************************************************************************)
(* Claims about RandomReverse3D (SpecReverse).                             *)
(***************************************************************************)
\* Every ground-truth voxel still lies at the place of its input voxel.
CoRegistered(sample) ==
    /\ sample.gt.shape = sample.input.shape
    /\ \A c \in Coords(sample.input.shape) :
          sample.gt.vox[c] = 0 - sample.input.vox[c]

\* C13: two calls of RandomReverse3D with the same three flip draws return
\* input and ground truth exactly as they were before the first of them,
\* for every combination of draws; and a call of a labeled RandomReverse3D
\* flips the same axes of input and ground truth.
C13_ReverseTwiceRestores ==
    /\ \A k \in 1..(Len(aug.draws) - 1) :
          aug.draws[k] = aug.draws[k + 1] => aug.samples[k + 2] = aug.samples[k]
    /\ aug.labeled => \A k \in DOMAIN aug.samples : CoRegistered(aug.samples[k])

\* Two labeled calls drew the same flips, all three axes among them, on a
\* sample whose third axis has three places: the first call changed input
\* and ground truth, the second restored them.
C13_Witness ==
    /\ aug.labeled
    /\ Len(aug.draws) = 2
    /\ aug.draws[1] = aug.draws[2]
    /\ \A a \in 1..3 : aug.draws[1][a]
    /\ aug.samples[1].input.shape = <<1, 2, 3>>
    /\ aug.samples[2].input # aug.samples[1].input
    /\ aug.samples[2].gt # aug.samples[1].gt
    /\ aug.samples[3] = aug.samples[1]

(***************************************************************************)
(* RandomTensorChannelShift.                                               *)
(***************************************************************************)

\* RandomTensorChannelShift.sample_augment: np_input_data += params
ShiftAugment(input_data, params) ==
    [i \in DOMAIN input_data |-> input_data[i] + params]

\* RandomTensorChannelShift.__call__ on a sample whose input is a list, for
\* the value get_params drew: the list built is [shifted input_data[0],
\* input_data[1]], and input_data[0] or input_data[1] of a shorter list
\* raises IndexError.
RandomTensorChannelShiftCall(sample, params) ==
    IF Len(sample.input) < 2 THEN [err |-> "IndexError", sample |-> sample]
    ELSE [err |-> NoErr,
          sample |-> [sample EXCEPT
                        !.input = <<ShiftAugment(sample.input[1], params),
                                    sample.input[2]>>]]

(***************************************************************************)
(* SpecShift: one 2D sample with up to MaxInputs input channels, given     *)
(* once to RandomTensorChannelShift.                                       *)
(***************************************************************************)
MaxInputs == 3         \* input channels of the sample

\* The values np.random.uniform(shift_range[0], shift_range[1]) may give.
Shifts == (0 - One)..One

\* Channel c of the input: the first one varies, the others are fixed and
\* pairwise different.
ShiftInput(first, n) ==
    [c \in 1..n |-> IF c = 1 THEN first ELSE [i \in 1..MaxPixels |-> c * One + i]]

InitShift ==
    /\ \E first \in GtChannels, n \in 1..MaxInputs :
          aug = [exists |-> TRUE,
                 stage |-> "fresh",
                 original |-> ShiftInput(first, n),
                 sample |-> [input |-> ShiftInput(first, n),
                             gt |-> <<first>>,
                             roi |-> None,
                             input_metadata |-> [c \in 1..n |-> ("channel" :> c)],
                             gt_metadata |-> <<("channel" :> 1)>>,
                             roi_metadata |-> None]]
    /\ res = NoCall
    /\ heap = <<>>
    /\ pair = Unused
    /\ ds3 = Unused
    /\ ds2 = Unused
    /\ cms = Unused
    /\ crop = Unused

\* RandomTensorChannelShift(shift_range)(sample)
AugRandomTensorChannelShift ==
    /\ aug.stage = "fresh"
    /\ \E params \in Shifts :
       \E r \in {RandomTensorChannelShiftCall(aug.sample, params)} :
          /\ aug' = [aug EXCEPT !.stage = "called", !.sample = r.sample]
          /\ res' = [op |-> "RandomTensorChannelShift", err |-> r.err,
                     params |-> params]
    /\ UNCHANGED <<heap, pair, ds3, ds2, cms, crop>>

NextShift == AugRandomTensorChannelShift

SpecShift == InitShift /\ [][NextShift]_vars

(***************************************************************************)
(* Claims about RandomTensorChannelShift (SpecShift).                      *)
(***************************************************************************)

\* C22: for a sample whose input is a list of n >= 1 channels,
\* RandomTensorChannelShift returns the same n channels, channel 0 being the
\* original plus the sampled constant and the others as they were; ground
\* truth, region of interest and all metadata are unchanged.
C22_ShiftsFirstChannelOnly ==
    res.op = "RandomTensorChannelShift" =>
        /\ res.err = NoErr
        /\ Len(aug.sample.input) = Len(aug.original)
        /\ \A c \in DOMAIN aug.sample.input :
              \A i \in DOMAIN aug.sample.input[c] :
                 aug.sample.input[c][i]
                    = aug.original[c][i] + (IF c = 1 THEN res.params ELSE 0)
        /\ aug.sample.gt = <<aug.original[1]>>
        /\ aug.sample.roi = None
        /\ aug.sample.input_metadata
              = [c \in DOMAIN aug.original |-> ("channel" :> c)]
        /\ aug.sample.gt_metadata = <<("channel" :> 1)>>
        /\ aug.sample.roi_metadata = None

====
